---- MODULE Spec2Model ----
(***************************************************************************)
(* Model of polyfem's augmented-Lagrangian driver                          *)
(* (src/polyfem/solver/ALSolver.cpp) and of the transient quadrature rule  *)
(* of src/polyfem/solver/Objective.cpp.                                    *)
(*                                                                         *)
(* A full solution vector is the pair <<f, d>>: f stands for the free      *)
(* degrees of freedom, d for the Dirichlet ones.  A reduced vector is the  *)
(* one-element sequence <<f>>.  The collaborators of ALSolver (problem,    *)
(* minimizer, forms) are the environment: the minimizer may leave any      *)
(* vector of the size it was given and may fail with a runtime_error.      *)
(***************************************************************************)
EXTENDS Integers, Sequences, FiniteSets, TLC

(* ------------------------------ bounds -------------------------------- *)
MaxFree == 3          \* free part of a solution ranges over 0..MaxFree
MaxErr == 2           \* Dirichlet part (= penalty error) ranges over 0..MaxErr
MaxInitWeight == 2    \* initial_al_weight ranges over 1..MaxInitWeight
MaxScaling == 3       \* scaling ranges over 2..MaxScaling
MaxMaxWeight == 4     \* max_al_weight ranges over initial_al_weight..MaxMaxWeight
MaxSteps == 2         \* loop iterations of one solve_al run
MaxCalls == 2         \* calls of solve_al / solve_reduced made by the caller
MaxIter == 1          \* stop_criteria().iterations ranges over 0..MaxIter
MaxVerts == 3         \* vertices of a mesh given to reorder_mesh
MaxColor == 2         \* colors range over 0..MaxColor
MaxFaces == 1         \* faces of a mesh given to reorder_mesh

FreeVals == 0..MaxFree
ErrVals == 0..MaxErr
FullVecs == {<<f, d>> : f \in FreeVals, d \in ErrVals}
ReducedVecs == {<<f>> : f \in FreeVals}
\* eta_tol as a fraction <<p, q>> with 0 < p < q
EtaTols == {<<1, 4>>, <<1, 2>>}

VARIABLES
    \* ALSolver members (constructor, ALSolver.cpp:7-23)
    initial_al_weight, scaling, max_al_weight, eta_tol,
    \* collaborators
    pen_form,      \* [enabled, weight]
    lagr_form,     \* [enabled, weight]
    nl_problem,    \* [full_size, apply_DBC, ls_open]
    nl_solver,     \* [iterations]
    \* the caller's solution and the locals of solve_al / solve_reduced
    sol, tmp_sol, initial_sol, al_weight, al_steps, iters,
    initial_error, current_error,
    \* control
    pc,            \* position inside solve_al / solve_reduced, or "idle"
    op,            \* operation last entered
    status,        \* how the last operation ended
    sol_in,        \* the solution the last operation was called with
    n_calls,       \* calls made so far
    trace,         \* collaborator calls of the current loop iteration / operation
    \* TransientObjective members and the result of its weight query
    time_steps_, dt_, transient_integral_type_, weights, wstatus,
    \* an objective of Objective.cpp with the data it reads, and the outcome
    \* of the last call made on it
    obj, res,
    \* the arguments of polyfem::reorder_mesh as the caller holds them (V, F,
    \* C, R, and whether the call has been made), and V and F as they were
    \* passed in
    mesh, mesh_in

alvars == <<initial_al_weight, scaling, max_al_weight, eta_tol, pen_form,
            lagr_form, nl_problem, nl_solver, sol, tmp_sol, initial_sol,
            al_weight, al_steps, iters, initial_error, current_error, pc, op,
            status, sol_in, n_calls, trace>>
trvars == <<time_steps_, dt_, transient_integral_type_, weights, wstatus>>
objvars == <<obj, res>>
meshvars == <<mesh, mesh_in>>
vars == <<alvars, trvars, objvars, meshvars>>

(* ------------------- collaborators of ALSolver ------------------------ *)
\* NLProblem::full_to_reduced: drops the Dirichlet degrees of freedom
full_to_reduced(x) == <<x[1]>>

\* NLProblem::reduced_to_full: fills the Dirichlet degrees of freedom with
\* their prescribed value, for which the penalty error is 0
reduced_to_full(x) == <<x[1], 0>>

\* LagrangianPenaltyForm::compute_error: distance of the Dirichlet part from
\* its prescribed value
compute_error(x) == x[2]

\* std::isfinite(nl_problem.value(x))
value_is_finite(x) == x[1] # 0

\* NLProblem::is_step_valid(x0, x1)
is_step_valid(x0, x1) == x1[1] # 1

\* NLProblem::is_step_collision_free(x0, x1)
is_step_collision_free(x0, x1) == x1[1] # 2

\* the vectors nl_solver->minimize can leave in its in/out argument
MinimizeResults(x) == IF Len(x) = 2 THEN FullVecs ELSE ReducedVecs

(* ----------------------------- ALSolver ------------------------------- *)
\* the objects ALSolver::set_al_weight acts on, as one record
Bundle == [pen |-> pen_form, lagr |-> lagr_form, prob |-> nl_problem]

\* one entry of the call trace: the call, its solution and weight arguments
\* and the configuration of forms (switch and weight) and problem when it is
\* made; for minimize
\* also the vector it left, whether it failed and the iteration budget it left
Call(b, name, x, w) ==
    [call |-> name, x |-> x, w |-> w, out |-> <<>>, threw |-> FALSE, its |-> -1,
     pen |-> b.pen.enabled, lagr |-> b.lagr.enabled,
     penw |-> b.pen.weight, lagrw |-> b.lagr.weight,
     full |-> b.prob.full_size, dbc |-> b.prob.apply_DBC]

\* set_al_weight whose first branch forgets pen_form->set_weight(weight)
set_al_weight_NoWeight(b, x, weight) ==
    IF weight > 0
    THEN [pen |-> [b.pen EXCEPT !.enabled = TRUE],
          lagr |-> [b.lagr EXCEPT !.enabled = TRUE],
          prob |-> [b.prob EXCEPT !.full_size = TRUE, !.apply_DBC = FALSE]]
    ELSE [pen |-> [b.pen EXCEPT !.enabled = FALSE],
          lagr |-> [b.lagr EXCEPT !.enabled = FALSE],
          prob |-> [b.prob EXCEPT !.full_size = FALSE, !.apply_DBC = TRUE]]

\* set_al_weight whose else branch forgets lagr_form->disable()
set_al_weight_KeepsLagr(b, x, weight) ==
    IF weight > 0
    THEN [pen |-> [b.pen EXCEPT !.enabled = TRUE, !.weight = weight],
          lagr |-> [b.lagr EXCEPT !.enabled = TRUE],
          prob |-> [b.prob EXCEPT !.full_size = TRUE, !.apply_DBC = FALSE]]
    ELSE [pen |-> [b.pen EXCEPT !.enabled = FALSE],
          lagr |-> b.lagr,
          prob |-> [b.prob EXCEPT !.full_size = FALSE, !.apply_DBC = TRUE]]

\* ALSolver::set_al_weight (the forms are present: solve_al dereferences both)
set_al_weight(b, x, weight) ==
    IF weight > 0
    THEN [pen |-> [b.pen EXCEPT !.enabled = TRUE, !.weight = weight],
          lagr |-> [b.lagr EXCEPT !.enabled = TRUE],
          prob |-> [b.prob EXCEPT !.full_size = TRUE, !.apply_DBC = FALSE]]
    ELSE [pen |-> [b.pen EXCEPT !.enabled = FALSE],
          lagr |-> [b.lagr EXCEPT !.enabled = FALSE],
          prob |-> [b.prob EXCEPT !.full_size = FALSE, !.apply_DBC = TRUE]]

\* a loop that runs its body once before it looks at the solution
LoopGuard_DoWhile(x, tx) == TRUE

\* a guard that joins the three tests with && instead of ||
LoopGuard_Conjunction(x, tx) ==
    /\ ~value_is_finite(tx)
    /\ ~is_step_valid(x, tx)
    /\ ~is_step_collision_free(x, tx)

\* the condition of the while loop of solve_al and of the check of
\* solve_reduced
LoopGuard(x, tx) ==
    \/ ~value_is_finite(tx)
    \/ ~is_step_valid(x, tx)
    \/ ~is_step_collision_free(x, tx)

\* a revert test written eta <= 0
EtaNegative_NonStrict(ce, ie) == ce >= ie

\* eta = 1 - sqrt(current_error / initial_error) < 0, in IEEE arithmetic:
\* x/0 is +inf for x > 0 (eta = -inf) and NaN for x = 0 (comparison false)
EtaNegative(ce, ie) == IF ie = 0 THEN ce > 0 ELSE ce > ie

\* eta < eta_tol for eta_tol = tol[1]/tol[2] in (0, 1):
\* sqrt(ce/ie) > 1 - eta_tol
EtaBelowTol(ce, ie, tol) ==
    IF ie = 0 THEN ce > 0
    ELSE ce * tol[2] * tol[2] > ie * (tol[2] - tol[1]) * (tol[2] - tol[1])

\* a test of line 81 that still escalates a weight equal to max_al_weight
Escalates_AtMax(ce, ie, w) == EtaBelowTol(ce, ie, eta_tol) /\ w <= max_al_weight

\* a test of line 81 that has lost its second operand
Escalates_IgnoresMax(ce, ie, w) == EtaBelowTol(ce, ie, eta_tol)

\* the test of line 81: the penalty is escalated, the multiplier kept
Escalates(ce, ie, w) == EtaBelowTol(ce, ie, eta_tol) /\ w < max_al_weight

\* the weight after the test of line 81
NextAlWeight(ce, ie, w) == IF Escalates(ce, ie, w) THEN w * scaling ELSE w

\* a revert test that never takes the initial solution back
AlRevert_Never(ce, ie, initial, iterate) == iterate

\* the solution after the test of line 72: the initial solution when the
\* error has grown, the iterate of the sub-solve otherwise
AlRevert(ce, ie, initial, iterate) ==
    IF EtaNegative(ce, ie) THEN initial ELSE iterate

\* a handler that lets the runtime_error escape solve_al
AlCatch_Rethrow(threw) == [pc |-> "idle", status |-> "runtime_error"]

\* the handler of a runtime_error of minimize inside the loop of solve_al:
\* where control continues and with which status
AlCatch(threw) == [pc |-> "al_after_minimize", status |-> "running"]

\* a loop that drops the minimizer's vector instead of copying it to sol
AlIterate_KeepOld(old_sol, new_tmp) == old_sol

\* the solution solve_al continues with after the try block (line 64)
AlIterate(old_sol, new_tmp) == new_tmp

\* an exit that forgets to write the saved budget back
AlRestoreIterations_Forgets(saved, current) == current

\* the value solve_al leaves in stop_criteria().iterations (line 90)
AlRestoreIterations(saved, current) == saved

\* the configurations forms and problem can be in before ALSolver first acts
\* on them: full space with both forms enabled, or reduced space with both
\* forms disabled; the weight of a form nobody has weighted yet is 1
InitialConfigs ==
    {[pen |-> [enabled |-> c, weight |-> 1],
      lagr |-> [enabled |-> c, weight |-> 1],
      prob |-> [full_size |-> c, apply_DBC |-> ~c, ls_open |-> 0]] :
        c \in BOOLEAN}

AlInit ==
    /\ initial_al_weight \in 1..MaxInitWeight
    /\ scaling \in 2..MaxScaling
    /\ max_al_weight \in initial_al_weight..MaxMaxWeight
    /\ eta_tol \in EtaTols
    /\ \E b \in InitialConfigs :
          /\ pen_form = b.pen
          /\ lagr_form = b.lagr
          /\ nl_problem = b.prob
    /\ nl_solver = [iterations |-> MaxIter]
    /\ sol \in FullVecs
    /\ tmp_sol = <<>>
    /\ initial_sol = <<>>
    /\ al_weight = 0
    /\ al_steps = 0
    /\ iters = 0
    /\ initial_error = 0
    /\ current_error = 0
    /\ pc = "idle"
    /\ op = "none"
    /\ status = "none"
    /\ sol_in = <<>>
    /\ n_calls = 0
    /\ trace = <<>>

\* ALSolver.cpp:25-41
SolveAlEnter ==
    /\ pc = "idle"
    /\ n_calls < MaxCalls
    /\ n_calls' = n_calls + 1
    /\ op' = "solve_al"
    /\ status' = "running"
    /\ sol_in' = sol
    /\ initial_sol' = sol
    /\ tmp_sol' = full_to_reduced(sol)
    /\ al_weight' = initial_al_weight
    /\ al_steps' = 0
    /\ iters' = nl_solver.iterations
    /\ initial_error' = compute_error(sol)
    /\ nl_problem' = [nl_problem EXCEPT !.ls_open = @ + 1]
    /\ trace' = <<Call(Bundle, "compute_error", sol, 0),
                  Call(Bundle, "line_search_begin", sol, 0)>>
    /\ pc' = "al_guard"
    /\ UNCHANGED <<initial_al_weight, scaling, max_al_weight, eta_tol,
                   pen_form, lagr_form, nl_solver, sol, current_error>>

\* ALSolver.cpp:43-45, the guard holds: the body is entered
AlGuardEnter ==
    /\ pc = "al_guard"
    /\ al_steps < MaxSteps
    /\ LoopGuard(sol, tmp_sol)
    /\ trace' = Append(trace, Call(Bundle, "guard", sol, 0))
    /\ pc' = "al_body"
    /\ UNCHANGED <<initial_al_weight, scaling, max_al_weight, eta_tol,
                   pen_form, lagr_form, nl_problem, nl_solver, sol, tmp_sol,
                   initial_sol, al_weight, al_steps, iters, initial_error,
                   current_error, op, status, sol_in, n_calls>>

\* ALSolver.cpp:43-45, the guard fails: the loop is left
AlGuardExit ==
    /\ pc = "al_guard"
    /\ ~LoopGuard(sol, tmp_sol)
    /\ trace' = Append(trace, Call(Bundle, "guard", sol, 0))
    /\ pc' = "al_exit"
    /\ UNCHANGED <<initial_al_weight, scaling, max_al_weight, eta_tol,
                   pen_form, lagr_form, nl_problem, nl_solver, sol, tmp_sol,
                   initial_sol, al_weight, al_steps, iters, initial_error,
                   current_error, op, status, sol_in, n_calls>>

\* ALSolver.cpp:47-54
AlBody ==
    /\ pc = "al_body"
    /\ LET b0 == [Bundle EXCEPT !.prob.ls_open = @ - 1]
           b1 == set_al_weight(b0, sol, al_weight)
       IN /\ pen_form' = b1.pen
          /\ lagr_form' = b1.lagr
          /\ nl_problem' = b1.prob
          /\ trace' = <<Call(Bundle, "line_search_end", <<>>, 0),
                        Call(b0, "set_al_weight", sol, al_weight),
                        Call(b1, "init", sol, 0),
                        Call(b1, "update_barrier_stiffness", sol, 0)>>
    /\ tmp_sol' = sol
    /\ pc' = "al_minimize"
    /\ UNCHANGED <<initial_al_weight, scaling, max_al_weight, eta_tol,
                   nl_solver, sol, initial_sol, al_weight, al_steps, iters,
                   initial_error, current_error, op, status, sol_in, n_calls>>

\* ALSolver.cpp:56-62
AlMinimize ==
    /\ pc = "al_minimize"
    /\ \E out \in MinimizeResults(tmp_sol), threw \in BOOLEAN, it \in 0..MaxIter :
          /\ tmp_sol' = out
          /\ nl_solver' = [nl_solver EXCEPT !.iterations = it]
          /\ trace' = Append(trace, [Call(Bundle, "minimize", tmp_sol, 0)
                                       EXCEPT !.out = out, !.threw = threw,
                                              !.its = it])
          /\ pc' = IF threw THEN AlCatch(threw).pc ELSE "al_after_minimize"
          /\ status' = IF threw THEN AlCatch(threw).status ELSE status
    /\ UNCHANGED <<initial_al_weight, scaling, max_al_weight, eta_tol,
                   pen_form, lagr_form, nl_problem, sol, initial_sol,
                   al_weight, al_steps, iters, initial_error, current_error,
                   op, sol_in, n_calls>>

\* a loop body that notifies the hook before the weight is updated
AlTailCalls_HookFirst(b0, b1, b2, sol1, sol2, escalate, w, w2) ==
    <<Call(b0, "set_al_weight", sol1, -1),
      Call(b1, "compute_error", sol1, 0),
      Call(b1, "line_search_begin", sol2, 0),
      Call(b2, "post_subsolve", <<>>, w)>>
    \o (IF escalate THEN <<>>
        ELSE <<Call(b2, "update_lagrangian", sol2, w)>>)

\* the collaborator calls of lines 65-86, in the order the body makes them:
\* b0, b1, b2 are the configurations before set_al_weight(-1), after it and
\* after line_search_begin, w and w2 the weight before and after line 82
AlTailCalls(b0, b1, b2, sol1, sol2, escalate, w, w2) ==
    <<Call(b0, "set_al_weight", sol1, -1),
      Call(b1, "compute_error", sol1, 0),
      Call(b1, "line_search_begin", sol2, 0)>>
    \o (IF escalate THEN <<>>
        ELSE <<Call(b2, "update_lagrangian", sol2, w)>>)
    \o <<Call(b2, "post_subsolve", <<>>, w2)>>

\* ALSolver.cpp:64-87
AlAfterMinimize ==
    /\ pc = "al_after_minimize"
    /\ LET sol1 == AlIterate(sol, tmp_sol)
           b1 == set_al_weight(Bundle, sol1, -1)
           ce == compute_error(sol1)
           sol2 == AlRevert(ce, initial_error, initial_sol, sol1)
           b2 == [b1 EXCEPT !.prob.ls_open = @ + 1]
           w2 == NextAlWeight(ce, initial_error, al_weight)
           escalate == Escalates(ce, initial_error, al_weight)
       IN /\ current_error' = ce
          /\ sol' = sol2
          /\ tmp_sol' = full_to_reduced(sol2)
          /\ pen_form' = b2.pen
          /\ lagr_form' = b2.lagr
          /\ nl_problem' = b2.prob
          /\ al_weight' = w2
          /\ trace' = trace
                \o AlTailCalls(Bundle, b1, b2, sol1, sol2, escalate,
                               al_weight, w2)
    /\ al_steps' = al_steps + 1
    /\ pc' = "al_guard"
    /\ UNCHANGED <<initial_al_weight, scaling, max_al_weight, eta_tol,
                   nl_solver, initial_sol, iters, initial_error, op, status,
                   sol_in, n_calls>>

\* ALSolver.cpp:89-91
AlExit ==
    /\ pc = "al_exit"
    /\ nl_problem' = [nl_problem EXCEPT !.ls_open = @ - 1]
    /\ nl_solver' = [nl_solver EXCEPT
                       !.iterations = AlRestoreIterations(iters, @)]
    /\ trace' = Append(trace, Call(Bundle, "line_search_end", <<>>, 0))
    /\ pc' = "idle"
    /\ status' = "returned"
    /\ UNCHANGED <<initial_al_weight, scaling, max_al_weight, eta_tol,
                   pen_form, lagr_form, sol, tmp_sol, initial_sol, al_weight,
                   al_steps, iters, initial_error, current_error, op, sol_in,
                   n_calls>>

\* ALSolver.cpp:93-98
SolveReducedEnter ==
    /\ pc = "idle"
    /\ n_calls < MaxCalls
    /\ n_calls' = n_calls + 1
    /\ op' = "solve_reduced"
    /\ status' = "running"
    /\ sol_in' = sol
    /\ tmp_sol' = full_to_reduced(sol)
    /\ nl_problem' = [nl_problem EXCEPT !.ls_open = @ + 1]
    /\ trace' = <<Call(Bundle, "line_search_begin", sol, 0)>>
    /\ pc' = "sr_check"
    /\ UNCHANGED <<initial_al_weight, scaling, max_al_weight, eta_tol,
                   pen_form, lagr_form, nl_solver, sol, initial_sol,
                   al_weight, al_steps, iters, initial_error, current_error>>

\* a failed check that only logs and goes on with the final solve
SolveReducedReject_LogsOnly ==
    /\ pc = "sr_check"
    /\ LoopGuard(sol, tmp_sol)
    /\ trace' = trace \o <<Call(Bundle, "guard", sol, 0),
                           Call(Bundle, "init", sol, 0),
                           Call(Bundle, "update_barrier_stiffness", sol, 0)>>
    /\ pc' = "sr_minimize"
    /\ UNCHANGED <<initial_al_weight, scaling, max_al_weight, eta_tol,
                   pen_form, lagr_form, nl_problem, nl_solver, sol, tmp_sol,
                   initial_sol, al_weight, al_steps, iters, initial_error,
                   current_error, op, status, sol_in, n_calls>>

\* ALSolver.cpp:100-103, the check fails: log_and_throw_error
SolveReducedReject ==
    /\ pc = "sr_check"
    /\ LoopGuard(sol, tmp_sol)
    /\ trace' = Append(trace, Call(Bundle, "guard", sol, 0))
    /\ pc' = "idle"
    /\ status' = "fatal_error"
    /\ UNCHANGED <<initial_al_weight, scaling, max_al_weight, eta_tol,
                   pen_form, lagr_form, nl_problem, nl_solver, sol, tmp_sol,
                   initial_sol, al_weight, al_steps, iters, initial_error,
                   current_error, op, sol_in, n_calls>>

\* ALSolver.cpp:100-111, the check passes: init and update_barrier_stiffness
SolveReducedInit ==
    /\ pc = "sr_check"
    /\ ~LoopGuard(sol, tmp_sol)
    /\ trace' = trace \o <<Call(Bundle, "guard", sol, 0),
                           Call(Bundle, "init", sol, 0),
                           Call(Bundle, "update_barrier_stiffness", sol, 0)>>
    /\ pc' = "sr_minimize"
    /\ UNCHANGED <<initial_al_weight, scaling, max_al_weight, eta_tol,
                   pen_form, lagr_form, nl_problem, nl_solver, sol, tmp_sol,
                   initial_sol, al_weight, al_steps, iters, initial_error,
                   current_error, op, status, sol_in, n_calls>>

\* a handler that swallows the failure as the loop of solve_al does
SrFinish_Swallows(threw, tx) ==
    [sol |-> reduced_to_full(tx), post |-> TRUE, status |-> "returned"]

\* what solve_reduced does once minimize has ended (ALSolver.cpp:116-123):
\* the solution it leaves, whether post_subsolve is called, how it ends
SrFinish(threw, tx) ==
    IF threw
    THEN [sol |-> reduced_to_full(tx), post |-> FALSE, status |-> "runtime_error"]
    ELSE [sol |-> reduced_to_full(tx), post |-> TRUE, status |-> "returned"]

\* ALSolver.cpp:112-124
SolveReducedMinimize ==
    /\ pc = "sr_minimize"
    /\ \E out \in MinimizeResults(tmp_sol), threw \in BOOLEAN, it \in 0..MaxIter :
          LET fin == SrFinish(threw, out)
          IN /\ tmp_sol' = out
             /\ nl_solver' = [nl_solver EXCEPT !.iterations = it]
             /\ sol' = fin.sol
             /\ status' = fin.status
             /\ trace' = Append(trace, [Call(Bundle, "minimize", tmp_sol, 0)
                                          EXCEPT !.out = out, !.threw = threw,
                                              !.its = it])
                         \o (IF fin.post
                             THEN <<Call(Bundle, "post_subsolve", <<>>, 0)>>
                             ELSE <<>>)
    /\ pc' = "idle"
    /\ UNCHANGED <<initial_al_weight, scaling, max_al_weight, eta_tol,
                   pen_form, lagr_form, nl_problem, initial_sol, al_weight,
                   al_steps, iters, initial_error, current_error, op, sol_in,
                   n_calls>>

(* ------------------------ TransientObjective -------------------------- *)
MaxTimeSteps == 4     \* time_steps_ ranges over 0..MaxTimeSteps
MaxDtNum == 3         \* dt_ ranges over n/1 and n/2, n in 1..MaxDtNum

RECURSIVE GCD(_, _)
GCD(a, b) == IF b = 0 THEN a ELSE GCD(b, a % b)

\* a rational number as the reduced fraction <<numerator, denominator>>
Rat(n, d) == LET g == GCD(n, d) IN <<n \div g, d \div g>>
RatDiv(r, k) == Rat(r[1], r[2] * k)
RatMul(r, k) == Rat(r[1] * k, r[2])

DtVals == {Rat(n, d) : n \in 1..MaxDtNum, d \in {1, 2}}

\* the characters of a few strings
Str_uniform == <<"u", "n", "i", "f", "o", "r", "m">>
Str_trapezoidal == <<"t", "r", "a", "p", "e", "z", "o", "i", "d", "a", "l">>
Str_simpson == <<"s", "i", "m", "p", "s", "o", "n">>
Str_final == <<"f", "i", "n", "a", "l">>
Str_step_ == <<"s", "t", "e", "p", "_">>
Digits == <<"0", "1", "2", "3", "4", "5", "6", "7", "8", "9">>
DigitChars == {Digits[i] : i \in DOMAIN Digits}
DigitValue(c) == (CHOOSE i \in DOMAIN Digits : Digits[i] = c) - 1

\* the rule names a TransientObjective is constructed with in the model
TypeNames ==
    {Str_uniform, Str_trapezoidal, Str_simpson, Str_final, <<"l", "i", "n">>}
    \cup {Str_step_ \o <<Digits[k + 1]>> : k \in 0..(MaxTimeSteps + 1)}
    \cup {Str_step_, <<"x">> \o Str_step_ \o <<"1">>}

\* std::string::find(pat) != npos
Contains(s, pat) ==
    \E i \in 1..(Len(s) - Len(pat) + 1) : SubSeq(s, i, i + Len(pat) - 1) = pat

\* std::string::substr(pos)
Substr(s, pos) == SubSeq(s, pos + 1, Len(s))

\* the number of leading decimal digits of s
RECURSIVE LeadingDigits(_)
LeadingDigits(s) ==
    IF s = <<>> \/ s[1] \notin DigitChars THEN 0 ELSE 1 + LeadingDigits(Tail(s))

RECURSIVE DigitsValue(_, _)
DigitsValue(s, n) ==
    IF n = 0 THEN 0 ELSE DigitsValue(s, n - 1) * 10 + DigitValue(s[n])

\* std::stoi on an unsigned decimal prefix: -1 stands for invalid_argument
Stoi(s) == IF LeadingDigits(s) = 0 THEN -1 ELSE DigitsValue(s, LeadingDigits(s))

\* the even interior weight of the textbook rule, 2dt/3
SimpsonEven_TwoThirds(dt) == RatDiv(RatMul(dt, 2), 3)

\* the even interior weight of the simpson rule (Objective.cpp:601)
SimpsonEven(dt) == RatDiv(RatMul(dt, 2), 4)

\* TransientObjective::get_transient_quadrature_weights; index i of the
\* code's vector is index i + 1 of the sequence.  ndebug: assert compiled out
get_transient_quadrature_weights(ts, dt, type, ndebug) ==
    LET n == ts + 1
        all_dt == [i \in 1..n |-> dt]
        zeros == [i \in 1..n |-> <<0, 1>>]
    IN  IF type = Str_uniform
        THEN [status |-> "ok", weights |-> [all_dt EXCEPT ![1] = <<0, 1>>]]
        ELSE IF type = Str_trapezoidal
        THEN [status |-> "ok",
              weights |-> [[all_dt EXCEPT ![1] = RatDiv(dt, 2)]
                              EXCEPT ![n] = RatDiv(dt, 2)]]
        ELSE IF type = Str_simpson
        THEN [status |-> "ok",
              weights |-> [i \in 1..n |->
                             IF i = 1 \/ i = n THEN RatDiv(dt, 3)
                             ELSE IF (i - 1) % 2 # 0
                                  THEN RatDiv(RatMul(dt, 4), 3)
                                  ELSE SimpsonEven(dt)]]
        ELSE IF type = Str_final
        THEN [status |-> "ok", weights |-> [zeros EXCEPT ![n] = <<1, 1>>]]
        ELSE IF Contains(type, Str_step_)
        THEN LET step == Stoi(Substr(type, 5))
             IN  IF step = -1
                 THEN [status |-> "invalid_argument", weights |-> <<>>]
                 ELSE IF step > 0 /\ step < n
                 THEN [status |-> "ok",
                       weights |-> [zeros EXCEPT ![step + 1] = <<1, 1>>]]
                 ELSE IF ~ndebug
                 THEN [status |-> "assert_failed", weights |-> <<>>]
                 ELSE IF step = 0
                 THEN [status |-> "ok", weights |-> [zeros EXCEPT ![1] = <<1, 1>>]]
                 ELSE [status |-> "undefined", weights |-> zeros]
        ELSE IF ~ndebug
        THEN [status |-> "assert_failed", weights |-> <<>>]
        ELSE [status |-> "ok", weights |-> all_dt]

TrIdle ==
    /\ time_steps_ = 0
    /\ dt_ = <<1, 1>>
    /\ transient_integral_type_ = <<>>
    /\ weights = <<>>
    /\ wstatus = "none"

AlIdle ==
    /\ initial_al_weight = 1
    /\ scaling = 2
    /\ max_al_weight = 1
    /\ eta_tol = <<1, 2>>
    /\ pen_form = [enabled |-> FALSE, weight |-> 0]
    /\ lagr_form = [enabled |-> FALSE, weight |-> 0]
    /\ nl_problem = [full_size |-> FALSE, apply_DBC |-> TRUE, ls_open |-> 0]
    /\ nl_solver = [iterations |-> MaxIter]
    /\ sol = <<0, 0>>
    /\ tmp_sol = <<>>
    /\ initial_sol = <<>>
    /\ al_weight = 0
    /\ al_steps = 0
    /\ iters = 0
    /\ initial_error = 0
    /\ current_error = 0
    /\ pc = "idle"
    /\ op = "none"
    /\ status = "none"
    /\ sol_in = <<>>
    /\ n_calls = 0
    /\ trace = <<>>

\* no objective is under study
ObjIdle ==
    /\ obj = [kind |-> "none"]
    /\ res = [call |-> "none"]

\* no mesh is under study
MeshIdle ==
    /\ mesh = [called |-> FALSE]
    /\ mesh_in = [called |-> FALSE]

\* TransientObjective::TransientObjective (Objective.cpp:571-577)
TrInit ==
    /\ time_steps_ \in 0..MaxTimeSteps
    /\ dt_ \in DtVals
    /\ transient_integral_type_ \in TypeNames
    /\ weights = <<>>
    /\ wstatus = "none"

\* a call of get_transient_quadrature_weights (Objective.cpp:579-620)
GetTransientQuadratureWeights ==
    /\ wstatus = "none"
    /\ \E ndebug \in BOOLEAN :
          LET r == get_transient_quadrature_weights(
                       time_steps_, dt_, transient_integral_type_, ndebug)
          IN  IF r.status = "undefined"
              THEN \E st \in {"ok", "crash"} :
                      /\ wstatus' = st
                      /\ weights' = r.weights
              ELSE /\ wstatus' = r.status
                   /\ weights' = r.weights
    /\ UNCHANGED <<time_steps_, dt_, transient_integral_type_>>
    /\ UNCHANGED <<alvars, objvars, meshvars>>

(* ----------------------------- objectives ----------------------------- *)
MaxSubs == 2          \* sub-objectives of a SumObjective
MaxCols == 2          \* cached time steps (columns of an adjoint right-hand side)
MaxVal == 1           \* values, gradient and right-hand-side entries: 0..MaxVal
MaxVol == 3           \* volumes and bounds range over 0..MaxVol
MaxFullDim == 2       \* full_dim() of a parameter the objective does not own
MaxNdof == 2          \* ndof() of a state the objective does not own
MaxPower == 3         \* the power of a BoundarySmoothingObjective: 2..MaxPower
MaxElems == 2         \* elements of a mesh: 1..MaxElems
MaxBodyId == 2        \* body ids: 1..MaxBodyId
MaxRefCalls == 2      \* calls of set_reference on one TargetObjective
MaxQuad == 2          \* quadrature points of one functional evaluation
MaxLame == 2          \* Lame coefficients lambda, mu: 0..MaxLame
MaxStressPower == 3   \* the power of a StressObjective: 0..MaxStressPower
MaxDensityPower == 3  \* the SIMP density exponent: 1..MaxDensityPower
MaxDensity == 2       \* element densities: 1..MaxDensity
MaxDim == 2           \* mesh dimensions of a BarycenterTargetObjective
MaxVolume == 2        \* its volume: 1..MaxVolume

\* a vector of n zeros (Eigen's setZero(n) / Zero(n))
Zeros(n) == [i \in 1..n |-> 0]

\* Eigen's a + b and k * a on vectors
VecAdd(a, b) == [i \in DOMAIN a |-> a[i] + b[i]]
VecScale(k, a) == [i \in DOMAIN a |-> k * a[i]]

\* the sum of the first n entries of a sequence of numbers
RECURSIVE SumOver(_, _)
SumOver(q, n) == IF n = 0 THEN 0 ELSE SumOver(q, n - 1) + q[n]

\* all sequences over S of length 0..n
RECURSIVE SeqsUpTo(_, _)
SeqsUpTo(S, n) ==
    IF n = 0 THEN {<<>>}
    ELSE LET shorter == SeqsUpTo(S, n - 1)
         IN  shorter \cup {Append(q, x) : q \in {r \in shorter : Len(r) = n - 1},
                                          x \in S}

\* all sequences over S of length exactly n
SeqsOfLen(S, n) == {q \in SeqsUpTo(S, n) : Len(q) = n}

\* what a sub-objective of a SumObjective returns for one state and one
\* parameter: value(), compute_partial_gradient(param) of length full_dim = 1,
\* compute_adjoint_rhs(state) with ndof = 1 rows and cols columns (a sequence
\* of columns)
SubResults(cols) ==
    [value : 0..MaxVal, grad : SeqsOfLen(0..MaxVal, 1),
     rhs : SeqsOfLen(SeqsOfLen(0..MaxVal, 1), cols)]

SumObjects ==
    UNION {[kind : {"sum"}, ndof : {1}, full_dim : {1}, cols : {c},
            objs : SeqsUpTo(SubResults(c), MaxSubs)] : c \in 1..MaxCols}

\* SumObjective::value (Objective.cpp:222-230)
RECURSIVE SumObjective_value(_)
SumObjective_value(objs) ==
    IF objs = <<>> THEN 0
    ELSE SumObjective_value(SubSeq(objs, 1, Len(objs) - 1)) + objs[Len(objs)].value

\* SumObjective::compute_partial_gradient (Objective.cpp:211-220)
RECURSIVE SumObjective_compute_partial_gradient(_, _)
SumObjective_compute_partial_gradient(objs, full_dim) ==
    IF objs = <<>> THEN Zeros(full_dim)
    ELSE VecAdd(SumObjective_compute_partial_gradient(
                    SubSeq(objs, 1, Len(objs) - 1), full_dim),
                objs[Len(objs)].grad)

\* SumObjective::compute_adjoint_rhs (Objective.cpp:200-209): rhs is a VectorXd
\* of ndof entries; rhs += M with a matrix M of another shape fails Eigen's
\* size assertion, and with assertions compiled out adds the first ndof
\* coefficients of M, that is its first column.  The vector is returned as a
\* matrix of one column.
RECURSIVE SumObjective_compute_adjoint_rhs(_, _, _)
SumObjective_compute_adjoint_rhs(objs, ndof, ndebug) ==
    IF objs = <<>> THEN [status |-> "ok", rhs |-> <<Zeros(ndof)>>]
    ELSE LET before == SumObjective_compute_adjoint_rhs(
                           SubSeq(objs, 1, Len(objs) - 1), ndof, ndebug)
             M == objs[Len(objs)].rhs
         IN  IF before.status # "ok" THEN before
             ELSE IF Len(M) # 1 /\ ~ndebug
             THEN [status |-> "assert_failed", rhs |-> <<>>]
             ELSE [status |-> "ok", rhs |-> <<VecAdd(before.rhs[1], M[1])>>]

\* a call of SumObjective::value
SumValue ==
    /\ obj.kind = "sum"
    /\ res.call = "none"
    /\ res' = [call |-> "value", status |-> "ok",
               value |-> SumObjective_value(obj.objs)]
    /\ UNCHANGED obj

\* a call of SumObjective::compute_partial_gradient
SumPartialGradient ==
    /\ obj.kind = "sum"
    /\ res.call = "none"
    /\ res' = [call |-> "compute_partial_gradient", status |-> "ok",
               grad |-> SumObjective_compute_partial_gradient(
                            obj.objs, obj.full_dim)]
    /\ UNCHANGED obj

\* a call of SumObjective::compute_adjoint_rhs
SumAdjointRhs ==
    /\ obj.kind = "sum"
    /\ res.call = "none"
    /\ \E ndebug \in BOOLEAN :
          LET r == SumObjective_compute_adjoint_rhs(obj.objs, obj.ndof, ndebug)
          IN  res' = [call |-> "compute_adjoint_rhs", status |-> r.status,
                      rhs |-> r.rhs]
    /\ UNCHANGED obj

\* what AdjointForm::compute_shape_derivative_functional_term writes for the
\* objective's own shape parameter: a vector of that parameter's full_dim()
ShapeTerms == {<<0>>, <<1>>, <<-1, 2>>}

\* the parameters an objective can be asked about: its own shape parameter,
\* or another parameter of any full_dim()
Params(shape_term) ==
    {[own |-> TRUE, full_dim |-> Len(shape_term)]}
        \cup [own : {FALSE}, full_dim : 1..MaxFullDim]

\* the states an objective can be asked about: its own state_, or another
\* state with its own ndof() and diff_cached.size()
States(ndof, cols) ==
    {[own |-> TRUE, ndof |-> ndof, cols |-> cols]}
        \cup [own : {FALSE}, ndof : 1..MaxNdof, cols : 1..MaxCols]

\* a SpatialIntegralObjective on a state of ndof = 1 with cols cached steps;
\* dJ_du is what AdjointForm::dJ_du_step writes for the own state
SpatialIntegralObjects ==
    UNION {[kind : {"spatial_integral"}, ndof : {1}, cols : {c},
            time_step : 0..(c - 1), dJ_du : SeqsOfLen(0..MaxVal, 1),
            shape_term : ShapeTerms] : c \in 1..MaxCols}

\* SpatialIntegralObjective::compute_adjoint_rhs_step (Objective.cpp:36-47)
compute_adjoint_rhs_step(o, state) ==
    IF ~state.own THEN Zeros(state.ndof) ELSE o.dJ_du

\* what a matrix allocated without initialisation can hold
Garbage(rows, cols) == SeqsOfLen(SeqsOfLen(0..MaxVal, rows), cols)

\* StaticObjective::compute_adjoint_rhs (Objective.cpp:478-484): term is
\* allocated uninitialised and only column time_step_ is written; a
\* time_step_ beyond the columns fails Eigen's index assertion, and is an
\* out-of-bounds write with assertions compiled out
StaticObjective_compute_adjoint_rhs(o, state, ndebug, term) ==
    IF o.time_step >= state.cols
    THEN [status |-> IF ndebug THEN "undefined" ELSE "assert_failed",
          rhs |-> <<>>]
    ELSE [status |-> "ok",
          rhs |-> [c \in 1..state.cols |->
                      IF c = o.time_step + 1
                      THEN compute_adjoint_rhs_step(o, state)
                      ELSE term[c]]]

\* SpatialIntegralObjective::compute_partial_gradient (Objective.cpp:49-60)
SpatialIntegralObjective_compute_partial_gradient(o, param) ==
    IF param.own THEN o.shape_term ELSE Zeros(param.full_dim)

\* a call of StaticObjective::compute_adjoint_rhs
StaticAdjointRhs ==
    /\ obj.kind = "spatial_integral"
    /\ res.call = "none"
    /\ \E state \in States(obj.ndof, obj.cols), ndebug \in BOOLEAN :
          \E term \in Garbage(state.ndof, state.cols) :
             LET r == StaticObjective_compute_adjoint_rhs(obj, state, ndebug, term)
             IN  res' = [call |-> "compute_adjoint_rhs", status |-> r.status,
                         state |-> state, rhs |-> r.rhs]
    /\ UNCHANGED obj

\* a call of SpatialIntegralObjective::compute_partial_gradient
SpatialIntegralPartialGradient ==
    /\ obj.kind = "spatial_integral"
    /\ res.call = "none"
    /\ \E param \in Params(obj.shape_term) :
          res' = [call |-> "compute_partial_gradient", status |-> "ok",
                  param |-> param,
                  grad |-> SpatialIntegralObjective_compute_partial_gradient(
                               obj, param)]
    /\ UNCHANGED obj

\* a VolumeObjective; its constructor rejects a null shape parameter
VolumeObjects == [kind : {"volume"}, shape_term : ShapeTerms]

\* VolumeObjective::compute_adjoint_rhs (Objective.cpp:392-395): a vector of
\* state.ndof() zeros returned as a matrix of one column
VolumeObjective_compute_adjoint_rhs(state) == <<Zeros(state.ndof)>>

\* VolumeObjective::compute_partial_gradient (Objective.cpp:397-413)
VolumeObjective_compute_partial_gradient(param, shape_term) ==
    IF param.own THEN shape_term ELSE Zeros(param.full_dim)

\* a call of VolumeObjective::compute_adjoint_rhs
VolumeAdjointRhs ==
    /\ obj.kind = "volume"
    /\ res.call = "none"
    /\ \E state \in States(1, 1) :
          res' = [call |-> "compute_adjoint_rhs", status |-> "ok",
                  state |-> state,
                  rhs |-> VolumeObjective_compute_adjoint_rhs(state)]
    /\ UNCHANGED obj

\* a call of VolumeObjective::compute_partial_gradient
VolumePartialGradient ==
    /\ obj.kind = "volume"
    /\ res.call = "none"
    /\ \E param \in Params(obj.shape_term) :
          res' = [call |-> "compute_partial_gradient", status |-> "ok",
                  param |-> param,
                  grad |-> VolumeObjective_compute_partial_gradient(
                               param, obj.shape_term)]
    /\ UNCHANGED obj

\* the soft bounds, the wrapped VolumeObjective's value and its shape term
VolumePenaltyObjects ==
    [kind : {"volume_penalty"}, vol : 0..MaxVol, lo : 0..MaxVol,
     hi : 0..MaxVol, shape_term : ShapeTerms]

\* VolumePaneltyObjective::compute_adjoint_rhs (Objective.cpp:436-439): one
\* column of as many zeros as the first cached solution has entries
VolumePaneltyObjective_compute_adjoint_rhs(state) == <<Zeros(state.ndof)>>

\* a penalty that measures the excess over hi from lo
VolumePaneltyObjective_value_WrongBound(vol, lo, hi) ==
    IF vol < lo THEN (vol - lo) * (vol - lo)
    ELSE IF vol > hi THEN (vol - lo) * (vol - lo)
    ELSE 0

\* VolumePaneltyObjective::value (Objective.cpp:425-435)
VolumePaneltyObjective_value(vol, lo, hi) ==
    IF vol < lo THEN (vol - lo) * (vol - lo)
    ELSE IF vol > hi THEN (vol - hi) * (vol - hi)
    ELSE 0

\* VolumePaneltyObjective::compute_partial_gradient (Objective.cpp:440-451)
VolumePaneltyObjective_compute_partial_gradient(vol, lo, hi, grad) ==
    IF vol < lo THEN VecScale(2 * (vol - lo), grad)
    ELSE IF vol > hi THEN VecScale(2 * (vol - hi), grad)
    ELSE Zeros(Len(grad))

\* a call of VolumePaneltyObjective::value
VolumePenaltyValue ==
    /\ obj.kind = "volume_penalty"
    /\ res.call = "none"
    /\ res' = [call |-> "value", status |-> "ok",
               value |-> VolumePaneltyObjective_value(obj.vol, obj.lo, obj.hi)]
    /\ UNCHANGED obj

\* a call of VolumePaneltyObjective::compute_partial_gradient
VolumePenaltyPartialGradient ==
    /\ obj.kind = "volume_penalty"
    /\ res.call = "none"
    /\ \E param \in Params(obj.shape_term) :
          res' = [call |-> "compute_partial_gradient", status |-> "ok",
                  param |-> param,
                  grad |-> VolumePaneltyObjective_compute_partial_gradient(
                               obj.vol, obj.lo, obj.hi,
                               VolumeObjective_compute_partial_gradient(
                                   param, obj.shape_term))]
    /\ UNCHANGED obj

\* a call of VolumePaneltyObjective::compute_adjoint_rhs
VolumePenaltyAdjointRhs ==
    /\ obj.kind = "volume_penalty"
    /\ res.call = "none"
    /\ \E state \in States(1, 1) :
          res' = [call |-> "compute_adjoint_rhs", status |-> "ok",
                  state |-> state,
                  rhs |-> VolumePaneltyObjective_compute_adjoint_rhs(state)]
    /\ UNCHANGED obj

\* signed rationals as reduced fractions <<numerator, denominator>> with a
\* positive denominator
Abs(x) == IF x < 0 THEN -x ELSE x
Sign(x) == IF x < 0 THEN -1 ELSE IF x > 0 THEN 1 ELSE 0
Q(n, d) ==
    LET g == GCD(Abs(n), Abs(d))
    IN  <<(Sign(d) * n) \div g, Abs(d) \div g>>
QAdd(a, b) == Q(a[1] * b[2] + b[1] * a[2], a[2] * b[2])
QSub(a, b) == Q(a[1] * b[2] - b[1] * a[2], a[2] * b[2])
QMul(a, b) == Q(a[1] * b[1], a[2] * b[2])
QDiv(a, b) == Q(a[1] * b[2], a[2] * b[1])
QAbs(a) == <<Abs(a[1]), a[2]>>

\* pow(a, k) for an integer k >= 0; pow(0, 0) is 1
RECURSIVE QPow(_, _)
QPow(a, k) == IF k = 0 THEN <<1, 1>> ELSE QMul(a, QPow(a, k - 1))

\* the sum of the first n entries of a sequence of rationals
RECURSIVE QSum(_, _)
QSum(q, n) == IF n = 0 THEN <<0, 1>> ELSE QAdd(QSum(q, n - 1), q[n])

\* meshes of a BoundarySmoothingObjective: vertex positions V on a line
\* (dim = 1, pairwise distinct), boundary edges between vertices 1..n_verts,
\* and the active vertex mask
BoundaryEdgeSets(n) ==
    {E \in SUBSET {<<1, 2>>, <<2, 3>>, <<1, 3>>} :
        E # {} /\ \A e \in E : e[2] <= n}

BoundarySmoothingObjects ==
    UNION {[kind : {"boundary_smoothing"}, V : {v},
            boundary_edges : BoundaryEdgeSets(Len(v)),
            active_mask : SeqsOfLen(BOOLEAN, Len(v)),
            scale_invariant : BOOLEAN, power : 2..MaxPower]
           : v \in {<<0, 1>>, <<0, 2, 1>>, <<0, 1, 3>>}}

\* BoundarySmoothingObjective::init (Objective.cpp:245-253): the symmetric
\* adjacency of the boundary edges
adj(o) == o.boundary_edges \cup {<<e[2], e[1]>> : e \in o.boundary_edges}

\* the inner iteration over row k of adj
Neighbours(o, k) == {j \in 1..Len(o.V) : <<k, j>> \in adj(o)}

\* BoundarySmoothingObjective::init (Objective.cpp:255-258)
degrees(o, k) == Cardinality(Neighbours(o, k))

\* ShapeParameter::get_boundary_nodes: the vertices on a boundary edge
boundary_nodes(o) == {k \in 1..Len(o.V) : degrees(o, k) # 0}

\* BoundarySmoothingObjective::init (Objective.cpp:260-278): the graph
\* Laplacian, left empty in scale-invariant mode
L(o, k, j) ==
    IF o.scale_invariant \/ degrees(o, k) = 0 \/ ~o.active_mask[k] THEN 0
    ELSE IF j = k THEN degrees(o, k)
    ELSE IF j \in Neighbours(o, k) THEN -1
    ELSE 0

\* row k of L * V
LV(o, k) == SumOver([j \in 1..Len(o.V) |-> L(o, k, j) * o.V[j]], Len(o.V))

\* the quantities the scale-invariant loops accumulate for boundary node b
\* (Objective.cpp:299-308, 337-351); in one dimension norm() is the absolute
\* value and normalized() the sign
ScaleInvariantSums(o, b) ==
    LET n == Len(o.V)
        x == [j \in 1..n |-> IF j \in Neighbours(o, b) THEN o.V[b] - o.V[j] ELSE 0]
        sum_norm == SumOver([j \in 1..n |-> Abs(x[j])], n)
    IN  [s |-> Q(SumOver(x, n), sum_norm),
         sum_norm |-> <<sum_norm, 1>>,
         sum_normalized |-> <<SumOver([j \in 1..n |-> Sign(x[j])], n), 1>>,
         valence |-> <<degrees(o, b), 1>>]

\* BoundarySmoothingObjective::value (Objective.cpp:286-316)
BoundarySmoothingObjective_value(o) ==
    LET n == Len(o.V)
    IN  IF o.scale_invariant
        THEN QSum([b \in 1..n |->
                     IF b \in boundary_nodes(o) /\ o.active_mask[b]
                     THEN QPow(QAbs(ScaleInvariantSums(o, b).s), o.power)
                     ELSE <<0, 1>>], n)
        ELSE <<SumOver([k \in 1..n |-> LV(o, k) * LV(o, k)], n), 1>>

\* the factor power * pow(s.norm(), power - 2.) / sum_norm
\* (Objective.cpp:355, 362)
ScaleInvariantFactor(o, b) ==
    LET a == ScaleInvariantSums(o, b)
    IN  QDiv(QMul(<<o.power, 1>>, QPow(QAbs(a.s), o.power - 2)), a.sum_norm)

\* what the loop over b adds to grad(b) (Objective.cpp:353-356)
ScaleInvariantOwn(o, b) ==
    LET a == ScaleInvariantSums(o, b)
    IN  QMul(QSub(QMul(a.s, a.valence),
                  QMul(QMul(a.s, a.s), a.sum_normalized)),
             ScaleInvariantFactor(o, b))

\* what the loop over b subtracts from grad(j) for a neighbour j of b
\* (Objective.cpp:358-364)
ScaleInvariantNeighbour(o, b, j) ==
    LET a == ScaleInvariantSums(o, b)
    IN  QMul(QAdd(a.s, QMul(QMul(a.s, a.s),
                            Q(o.V[j] - o.V[b], Abs(o.V[b] - o.V[j])))),
             ScaleInvariantFactor(o, b))

\* BoundarySmoothingObjective::compute_partial_gradient
\* (Objective.cpp:323-370): param is never read, the gradient has V.size()
\* entries
BoundarySmoothingObjective_compute_partial_gradient(o, param) ==
    LET n == Len(o.V)
        active(b) == b \in boundary_nodes(o) /\ o.active_mask[b]
    IN  IF o.scale_invariant
        THEN [v \in 1..n |->
                QSub(IF active(v) THEN ScaleInvariantOwn(o, v) ELSE <<0, 1>>,
                     QSum([b \in 1..n |->
                              IF active(b) /\ v \in Neighbours(o, b)
                              THEN ScaleInvariantNeighbour(o, b, v)
                              ELSE <<0, 1>>], n))]
        ELSE [v \in 1..n |->
                <<2 * SumOver([k \in 1..n |-> L(o, k, v) * LV(o, k)], n), 1>>]

\* BoundarySmoothingObjective::compute_adjoint_rhs (Objective.cpp:318-321)
BoundarySmoothingObjective_compute_adjoint_rhs(state) == <<Zeros(state.ndof)>>

\* a call of BoundarySmoothingObjective::value
BoundarySmoothingValue ==
    /\ obj.kind = "boundary_smoothing"
    /\ res.call = "none"
    /\ res' = [call |-> "value", status |-> "ok",
               value |-> BoundarySmoothingObjective_value(obj)]
    /\ UNCHANGED obj

\* a call of BoundarySmoothingObjective::compute_partial_gradient
BoundarySmoothingPartialGradient ==
    /\ obj.kind = "boundary_smoothing"
    /\ res.call = "none"
    /\ \E param \in Params(obj.V) :
          res' = [call |-> "compute_partial_gradient", status |-> "ok",
                  param |-> param,
                  grad |-> BoundarySmoothingObjective_compute_partial_gradient(
                               obj, param)]
    /\ UNCHANGED obj

\* a call of BoundarySmoothingObjective::compute_adjoint_rhs
BoundarySmoothingAdjointRhs ==
    /\ obj.kind = "boundary_smoothing"
    /\ res.call = "none"
    /\ \E state \in States(1, 1) :
          res' = [call |-> "compute_adjoint_rhs", status |-> "ok",
                  state |-> state,
                  rhs |-> BoundarySmoothingObjective_compute_adjoint_rhs(state)]
    /\ UNCHANGED obj

\* doubles that the functionals produce: an exact integer, an infinity, a
\* NaN, or an expression in exact integers that has no integer value
Num(n) == [t |-> "num", n |-> n]
Inf(sign) == [t |-> "inf", sign |-> sign]
NaN == [t |-> "nan"]

RECURSIVE IntPow(_, _)
IntPow(x, k) == IF k = 0 THEN 1 ELSE x * IntPow(x, k - 1)

\* pow(x, k / 2.) for integers x >= 0 and k: pow(x, 0) is 1 for every x,
\* pow(0, y) is 0 for y > 0 and +inf for y < 0
PowHalf(x, k) ==
    IF k = 0 THEN Num(1)
    ELSE IF x = 0 THEN (IF k > 0 THEN Num(0) ELSE Inf(1))
    ELSE IF x = 1 THEN Num(1)
    ELSE IF k > 0 /\ k % 2 = 0 THEN Num(IntPow(x, k \div 2))
    ELSE [t |-> "pow", base |-> x, twice |-> k]

\* the product of an integer and a double: 0 * inf is NaN
Times(k, v) ==
    IF v.t = "num" THEN Num(k * v.n)
    ELSE IF v.t = "nan" THEN NaN
    ELSE IF v.t = "inf" THEN (IF k = 0 THEN NaN ELSE Inf(Sign(k) * v.sign))
    ELSE IF k = 0 THEN Num(0)
    ELSE [t |-> "times", k |-> k, of |-> v]

\* const int dim = sqrt(cols)
IntSqrt(n) == CHOOSE d \in 0..n : d * d <= n /\ (d + 1) * (d + 1) > n

\* polyfem::utils::vector2matrix: a row of dim * dim entries as a dim x dim
\* matrix, row by row
vector2matrix(row) ==
    LET dim == IntSqrt(Len(row))
    IN  [i \in 1..dim |-> [l \in 1..dim |-> row[(i - 1) * dim + l]]]

\* Eigen's trace(), squaredNorm() and (a.array() * b.array()).sum() on
\* matrices given as sequences of rows
Trace(G) == SumOver([i \in 1..Len(G) |-> G[i][i]], Len(G))
Contract(A, B) ==
    SumOver([i \in 1..Len(A) |->
                SumOver([l \in 1..Len(A[i]) |-> A[i][l] * B[i][l]], Len(A[i]))],
            Len(A))
squaredNorm(A) == Contract(A, A)
ZeroMatrix(G) == [i \in 1..Len(G) |-> [l \in 1..Len(G[i]) |-> 0]]

\* a linear-elastic stress without the volumetric strain in the lambda term
LinearElasticityStress_NoTrace(G, lambda, mu) ==
    [i \in 1..Len(G) |-> [l \in 1..Len(G) |->
        mu * (G[i][l] + G[l][i]) + (IF i = l THEN lambda ELSE 0)]]

\* mu * (G + G^T) + lambda * tr(G) * I (Objective.cpp:85, 114, 681, 698, 755)
LinearElasticityStress(G, lambda, mu) ==
    [i \in 1..Len(G) |-> [l \in 1..Len(G) |->
        mu * (G[i][l] + G[l][i]) + (IF i = l THEN lambda * Trace(G) ELSE 0)]]

\* the formulations of a state; "SaintVenant" stands for every formulation
\* that neither objective supports
Formulations == {"Laplacian", "LinearElasticity", "NeoHookean", "SaintVenant"}

\* rows of grad_u at one quadrature point: dim * dim = 4 entries for the
\* tensor formulations, dim = 2 entries for the scalar Laplacian
TensorRows ==
    {<<0, 0, 0, 0>>, <<1, 0, 0, 0>>, <<0, 1, 0, 0>>, <<1, 0, 0, 1>>,
     <<1, 0, 0, -1>>, <<0, 1, -1, 0>>}
ScalarRows == {<<0, 0>>, <<1, 0>>, <<1, 1>>}
GradU(formulation) ==
    {g \in SeqsUpTo(IF formulation = "Laplacian" THEN ScalarRows
                    ELSE TensorRows, MaxQuad) : g # <<>>}

\* a StressObjective and the data of the element its functional is evaluated
\* on: grad_u at the quadrature points and the Lame coefficients there
StressObjects ==
    UNION {[kind : {"stress"}, formulation : {f}, grad_u : GradU(f),
            lambda : 0..MaxLame, mu : 0..MaxLame,
            in_power : 0..MaxStressPower, out_sqrt : BOOLEAN]
           : f \in Formulations}

\* the stress at quadrature point q (Objective.cpp:78-95, 108-127): a matrix,
\* no matrix at all for an unknown formulation, or, for NeoHookean away from
\* the undeformed state, a matrix that is not tracked
Stress(o, q) ==
    IF o.formulation = "Laplacian"
    THEN [t |-> "mat", m |-> <<o.grad_u[q]>>]
    ELSE IF o.formulation = "LinearElasticity"
    THEN [t |-> "mat",
          m |-> LinearElasticityStress(vector2matrix(o.grad_u[q]),
                                       o.lambda, o.mu)]
    ELSE IF o.formulation = "NeoHookean"
    THEN (IF vector2matrix(o.grad_u[q]) = ZeroMatrix(vector2matrix(o.grad_u[q]))
          THEN [t |-> "mat", m |-> ZeroMatrix(vector2matrix(o.grad_u[q]))]
          ELSE [t |-> "untracked"])
    ELSE [t |-> "empty"]

\* the j of StressObjective::get_integral_functional (Objective.cpp:73-98)
StressObjective_j(o) ==
    IF o.formulation \notin {"Laplacian", "LinearElasticity", "NeoHookean"}
    THEN [status |-> "fatal", message |-> "Unknown formulation!"]
    ELSE [status |-> "ok",
          stress |-> [q \in 1..Len(o.grad_u) |-> Stress(o, q)],
          val |-> [q \in 1..Len(o.grad_u) |->
                     IF Stress(o, q).t = "mat"
                     THEN PowHalf(squaredNorm(Stress(o, q).m), o.in_power)
                     ELSE [t |-> "untracked"]]]

\* AdjointForm::integrate_objective with unit quadrature weights
integrate_objective(val) ==
    IF \A q \in 1..Len(val) : val[q].t = "num"
    THEN Num(SumOver([q \in 1..Len(val) |-> val[q].n], Len(val)))
    ELSE [t |-> "integral", of |-> val]

\* pow(v, 1. / p): 1. / 0 is +inf
RootPow(v, p) ==
    IF v.t # "num" THEN [t |-> "root", of |-> v, p |-> p]
    ELSE IF p = 0
    THEN (IF v.n = 0 THEN Num(0) ELSE IF v.n = 1 THEN Num(1) ELSE Inf(1))
    ELSE IF p = 1 \/ v.n \in {0, 1} THEN v
    ELSE [t |-> "root", of |-> v, p |-> p]

\* StressObjective::value (Objective.cpp:139-146)
StressObjective_value(o) ==
    LET j == StressObjective_j(o)
    IN  IF j.status # "ok" THEN j
        ELSE [j EXCEPT !.status = "ok"] @@
             [value |-> IF o.out_sqrt
                        THEN RootPow(integrate_objective(j.val), o.in_power)
                        ELSE integrate_objective(j.val)]

\* stress_dstress at quadrature point q (Objective.cpp:108-127)
StressDstress(o, q) ==
    IF Stress(o, q).t # "mat" THEN Stress(o, q)
    ELSE IF o.formulation = "Laplacian"
    THEN [t |-> "mat", m |-> <<VecScale(2, o.grad_u[q])>>]
    ELSE IF o.formulation = "LinearElasticity"
    THEN [t |-> "mat",
          m |-> LinearElasticityStress(Stress(o, q).m, o.lambda, o.mu)]
    ELSE [t |-> "mat", m |-> ZeroMatrix(Stress(o, q).m)]

\* the dj_dgradu of StressObjective::get_integral_functional
\* (Objective.cpp:100-134): an unknown formulation is only logged, stress
\* and stress_dstress stay empty and stress_dstress(i, l) is read out of
\* bounds: Eigen's index assertion fails, and with assertions compiled out
\* the read yields an arbitrary double or ends the process
StressObjective_dj_dgradu(o, ndebug, crash) ==
    LET cols == Len(o.grad_u[1])
        dim == IntSqrt(cols)
        actual_dim == IF o.formulation = "Laplacian" THEN 1 ELSE dim
        coef(q) == Times(o.in_power,
                         PowHalf(squaredNorm(Stress(o, q).m), o.in_power - 2))
        entry(q, c) ==
            LET i == (c - 1) \div dim
                l == (c - 1) % dim
            IN  IF i >= actual_dim THEN Num(0)
                ELSE IF Stress(o, q).t = "untracked" THEN [t |-> "untracked"]
                ELSE Times(StressDstress(o, q).m[i + 1][l + 1], coef(q))
    IN  IF Stress(o, 1).t = "empty"
        THEN IF ~ndebug THEN [status |-> "assert_failed", logged |-> TRUE]
             ELSE IF crash THEN [status |-> "crash", logged |-> TRUE]
             ELSE [status |-> "ok", logged |-> TRUE,
                   val |-> [q \in 1..Len(o.grad_u) |->
                              [c \in 1..cols |->
                                 IF c <= dim * dim THEN [t |-> "garbage"]
                                 ELSE Num(0)]]]
        ELSE [status |-> "ok", logged |-> FALSE,
              val |-> [q \in 1..Len(o.grad_u) |->
                         [c \in 1..cols |->
                            IF c <= dim * dim THEN entry(q, c) ELSE Num(0)]]]

\* a call of StressObjective::value
StressValue ==
    /\ obj.kind = "stress"
    /\ res.call = "none"
    /\ res' = [call |-> "value"] @@ StressObjective_value(obj)
    /\ UNCHANGED obj

\* an evaluation of the dj_dgradu of a StressObjective
StressDjDgradu ==
    /\ obj.kind = "stress"
    /\ res.call = "none"
    /\ \E ndebug \in BOOLEAN, crash \in BOOLEAN :
          res' = [call |-> "dj_dgradu"]
                     @@ StressObjective_dj_dgradu(obj, ndebug, crash)
    /\ UNCHANGED obj

\* a ComplianceObjective and the data of the element its functional and its
\* topology gradient are evaluated on
ComplianceObjects ==
    [kind : {"compliance"},
     formulation : {"LinearElasticity", "NeoHookean", "SaintVenant"},
     grad_u : GradU("LinearElasticity"),
     lambda : 0..MaxLame, mu : 0..MaxLame,
     density : 1..MaxDensity, density_power : 1..MaxDensityPower]

\* what (stress.array() * grad_u_q.array()).sum() can do for an empty stress
\* once Eigen's assertions are compiled out
EmptyProductOutcomes == {"empty", "garbage", "crash"}

\* the stress : grad u of every quadrature point for LinearElasticity
ComplianceDensity(o) ==
    [q \in 1..Len(o.grad_u) |->
        Contract(LinearElasticityStress(vector2matrix(o.grad_u[q]),
                                        o.lambda, o.mu),
                 vector2matrix(o.grad_u[q]))]

\* the j of ComplianceObjective::get_integral_functional
\* (Objective.cpp:673-687): another formulation is only logged and stress
\* stays empty; the coefficient-wise product of the empty stress and grad_u_q
\* fails Eigen's size assertion, and with assertions compiled out it is
\* summed over the extent of one operand: nothing (sum 0), or the extent of
\* grad_u_q with reads of the empty stress out of bounds
ComplianceObjective_j(o, ndebug, outcome) ==
    IF o.formulation = "LinearElasticity"
    THEN [status |-> "ok", logged |-> FALSE,
          val |-> [q \in 1..Len(o.grad_u) |-> Num(ComplianceDensity(o)[q])]]
    ELSE IF ~ndebug THEN [status |-> "assert_failed", logged |-> TRUE]
    ELSE IF outcome = "crash" THEN [status |-> "crash", logged |-> TRUE]
    ELSE [status |-> "ok", logged |-> TRUE,
          val |-> [q \in 1..Len(o.grad_u) |->
                     IF outcome = "empty" THEN Num(0) ELSE [t |-> "garbage"]]]

\* the dj_dgradu of ComplianceObjective::get_integral_functional
\* (Objective.cpp:689-707): another formulation is only logged and
\* stress(i, l) is read out of bounds
ComplianceObjective_dj_dgradu(o, ndebug, crash) ==
    IF o.formulation = "LinearElasticity"
    THEN [status |-> "ok", logged |-> FALSE,
          val |-> [q \in 1..Len(o.grad_u) |->
                     LET stress == LinearElasticityStress(
                                       vector2matrix(o.grad_u[q]),
                                       o.lambda, o.mu)
                         dim == IntSqrt(Len(o.grad_u[q]))
                     IN  [c \in 1..Len(o.grad_u[q]) |->
                            Num(2 * stress[((c - 1) \div dim) + 1]
                                          [((c - 1) % dim) + 1])]]]
    ELSE IF ~ndebug THEN [status |-> "assert_failed", logged |-> TRUE]
    ELSE IF crash THEN [status |-> "crash", logged |-> TRUE]
    ELSE [status |-> "ok", logged |-> TRUE,
          val |-> [q \in 1..Len(o.grad_u) |->
                     [c \in 1..Len(o.grad_u[q]) |-> [t |-> "garbage"]]]]

\* the topology branch of ComplianceObjective::compute_partial_gradient for
\* one element with unit quadrature weights (Objective.cpp:723-764): another
\* formulation is only logged, and the product with the empty stress behaves
\* as in the value functional
ComplianceObjective_topology_gradient(o, ndebug, outcome) ==
    IF o.formulation = "LinearElasticity"
    THEN [status |-> "ok", logged |-> FALSE,
          term |-> SumOver([q \in 1..Len(o.grad_u) |->
                              o.density_power
                                  * IntPow(o.density, o.density_power - 1)
                                  * ComplianceDensity(o)[q]], Len(o.grad_u))]
    ELSE IF ~ndebug THEN [status |-> "assert_failed", logged |-> TRUE]
    ELSE IF outcome = "crash" THEN [status |-> "crash", logged |-> TRUE]
    ELSE [status |-> "ok", logged |-> TRUE,
          term |-> IF outcome = "empty" THEN 0 ELSE "garbage"]

\* an evaluation of the j of a ComplianceObjective
ComplianceJ ==
    /\ obj.kind = "compliance"
    /\ res.call = "none"
    /\ \E ndebug \in BOOLEAN, outcome \in EmptyProductOutcomes :
          res' = [call |-> "j"] @@ ComplianceObjective_j(obj, ndebug, outcome)
    /\ UNCHANGED obj

\* an evaluation of the dj_dgradu of a ComplianceObjective
ComplianceDjDgradu ==
    /\ obj.kind = "compliance"
    /\ res.call = "none"
    /\ \E ndebug \in BOOLEAN, crash \in BOOLEAN :
          res' = [call |-> "dj_dgradu"]
                     @@ ComplianceObjective_dj_dgradu(obj, ndebug, crash)
    /\ UNCHANGED obj

\* a call of ComplianceObjective::compute_partial_gradient with the
\* topology parameter
ComplianceTopologyGradient ==
    /\ obj.kind = "compliance"
    /\ res.call = "none"
    /\ \E ndebug \in BOOLEAN, outcome \in EmptyProductOutcomes :
          res' = [call |-> "compute_partial_gradient_topology"]
                     @@ ComplianceObjective_topology_gradient(
                            obj, ndebug, outcome)
    /\ UNCHANGED obj

\* the parameters a ComplianceObjective can be asked about: its elastic_param_,
\* its shape_param_, its topo_param_ or any other one, of any full_dim()
ComplianceParams ==
    [kind : {"elastic", "shape", "topology", "other"}, full_dim : 1..MaxFullDim]

\* how a call that calls itself with the same argument ends: the stack runs
\* out, or the build has turned the recursion into a loop that never ends
EndlessRecursionOutcomes == {"stack_overflow", "hangs"}

\* ComplianceObjective::compute_partial_gradient (Objective.cpp:711-767) on a
\* mesh of one element: log_and_throw_error for the elastic parameter; for the
\* shape parameter the unqualified call compute_partial_gradient(param) of
\* line 722, which is this function again, with the same argument; the sum of
\* lines 723-764 in term(0) for the topology parameter; the zero vector of
\* line 714 otherwise
ComplianceObjective_compute_partial_gradient(o, param, ndebug, outcome, endless) ==
    IF param.kind = "elastic"
    THEN [status |-> "fatal", message |-> "Not implemented!"]
    ELSE IF param.kind = "shape"
    THEN [status |-> endless]
    ELSE IF param.kind = "topology"
    THEN LET r == ComplianceObjective_topology_gradient(o, ndebug, outcome)
         IN  IF r.status = "ok"
             THEN [status |-> "ok", logged |-> r.logged,
                   term |-> <<r.term>> \o Zeros(param.full_dim - 1)]
             ELSE r
    ELSE [status |-> "ok", term |-> Zeros(param.full_dim)]

\* a call of ComplianceObjective::compute_partial_gradient
CompliancePartialGradient ==
    /\ obj.kind = "compliance"
    /\ res.call = "none"
    /\ \E param \in ComplianceParams, ndebug \in BOOLEAN,
          outcome \in EmptyProductOutcomes,
          endless \in EndlessRecursionOutcomes :
          res' = [call |-> "compute_partial_gradient", param |-> param]
                     @@ ComplianceObjective_compute_partial_gradient(
                            obj, param, ndebug, outcome, endless)
    /\ UNCHANGED obj

\* the body id of every element of a mesh, element 0 first
BodyIdLists ==
    {q \in SeqsUpTo(1..MaxBodyId, MaxElems) : q # <<>>}

\* a TargetObjective on a mesh with the given body ids; e_to_ref_e_ starts
\* empty
TargetObjects ==
    [kind : {"target"}, body : BodyIdLists, e_to_ref_e : {<<>>},
     n_calls : {0}]

\* the loops of TargetObjective::set_reference that collect, for body id b,
\* the selected elements in increasing order (Objective.cpp:834-859)
InterestedElements(body, ids, b) ==
    SelectSeq([k \in 1..Len(body) |-> k - 1],
              LAMBDA e : body[e + 1] = b /\ (ids = {} \/ b \in ids))

\* ref_count and count (Objective.cpp:835-859)
InterestedCount(body, ids) ==
    Cardinality({e \in 1..Len(body) : ids = {} \/ body[e] \in ids})

\* the keys written by the final loop (Objective.cpp:867-873)
MappedElements(body, ids) ==
    {e \in 0..(Len(body) - 1) : ids = {} \/ body[e + 1] \in ids}

\* the position of element e in the list of its body id
PositionInBody(body, ids, e) ==
    Cardinality({f \in MappedElements(body, ids) :
                    body[f + 1] = body[e + 1] /\ f < e})

\* the keys for which ref_interested_body_id_to_e[kv.first][i] reads past
\* the end of the reference list
OutOfBounds(body, ref_body, ids) ==
    {e \in MappedElements(body, ids) :
        PositionInBody(body, ids, e) >=
            Len(InterestedElements(ref_body, ids, body[e + 1]))}

\* what a read past the end of a vector can yield
GarbageElements == {-1, 0}

\* TargetObjective::set_reference (Objective.cpp:830-874): a count mismatch
\* is only logged, the map is then extended in every case and never
\* cleared; a read past the end of a reference list yields an arbitrary
\* element or ends the process
set_reference(o, ref_body, ids, garbage, crash) ==
    LET oob == OutOfBounds(o.body, ref_body, ids)
        keys == MappedElements(o.body, ids)
        entry(e) ==
            IF e \in oob THEN garbage[e]
            ELSE InterestedElements(ref_body, ids, o.body[e + 1])[
                     PositionInBody(o.body, ids, e) + 1]
        logged == InterestedCount(o.body, ids) # InterestedCount(ref_body, ids)
    IN  IF oob # {} /\ crash
        THEN [status |-> "crash", logged |-> logged, map |-> o.e_to_ref_e]
        ELSE [status |-> "ok", logged |-> logged,
              map |-> [e \in DOMAIN o.e_to_ref_e \cup keys |->
                          IF e \in keys THEN entry(e) ELSE o.e_to_ref_e[e]]]

\* a call of TargetObjective::set_reference
SetReference ==
    /\ obj.kind = "target"
    /\ obj.n_calls < MaxRefCalls
    /\ IF res.call = "none" THEN TRUE ELSE res.status = "ok"
    /\ \E ref_body \in BodyIdLists, ids \in SUBSET (1..MaxBodyId),
          garbage \in [0..(MaxElems - 1) -> GarbageElements],
          crash \in BOOLEAN :
          LET r == set_reference(obj, ref_body, ids, garbage, crash)
          IN  /\ res' = [call |-> "set_reference", status |-> r.status,
                         logged |-> r.logged, ref_body |-> ref_body,
                         ids |-> ids, before |-> obj.e_to_ref_e]
              /\ obj' = [obj EXCEPT !.e_to_ref_e = r.map,
                                    !.n_calls = obj.n_calls + 1]

\* target matrices: one row of dim entries, or one row per cached time step
Targets(dim) ==
    SeqsOfLen(SeqsOfLen(0..MaxVal, dim), 1)
        \cup SeqsOfLen(SeqsOfLen(0..MaxVal, dim), MaxCols)

\* a BarycenterTargetObjective on a state with MaxCols cached time steps:
\* position[d][t + 1] is what PositionObjective d returns at time step t,
\* volume what the VolumeObjective returns; every time step starts at 0
BarycenterObjects ==
    UNION {[kind : {"barycenter"}, dim : {dim}, time_step : {0},
            objp_time_step : {[d \in 1..dim |-> 0]},
            volume : 1..MaxVolume,
            position : [1..dim -> [1..MaxCols -> 0..MaxVal]],
            target : Targets(dim)] : dim \in 1..MaxDim}

\* BarycenterTargetObjective::set_time_step (Objective.cpp:509-514)
BarycenterTargetObjective_set_time_step(o, t) ==
    [o EXCEPT !.time_step = t, !.objp_time_step = [d \in 1..o.dim |-> t]]

\* BarycenterTargetObjective::get_target (Objective.cpp:500-507): a row of a
\* matrix with several rows converts to a column vector; the whole matrix of
\* one row and dim > 1 columns does not: Eigen transposes only what is a
\* vector at compile time, the conversion fails the resize assertion, and
\* with assertions compiled out leaves a vector holding one coefficient
get_target(o, ndebug) ==
    IF Len(o.target) > 1
    THEN [status |-> "ok", target |-> o.target[o.time_step + 1]]
    ELSE IF o.dim = 1 THEN [status |-> "ok", target |-> o.target[1]]
    ELSE IF ~ndebug THEN [status |-> "assert_failed"]
    ELSE [status |-> "ok", target |-> <<o.target[1][1]>>]

\* BarycenterTargetObjective::get_barycenter (Objective.cpp:561-569)
get_barycenter(o) ==
    [d \in 1..o.dim |->
        Q(o.position[d][o.objp_time_step[d] + 1], o.volume)]

\* what the coefficients past the end of a one-coefficient vector read as
BeyondTarget(dim) == {<<>>} \cup SeqsOfLen(0..MaxVal, dim)

\* BarycenterTargetObjective::value (Objective.cpp:516-519): when the target
\* vector is shorter than the barycenter and assertions are compiled out, the
\* difference has the extent of one operand: the one stored coefficient
\* (beyond = <<>>), or dim coefficients read past the stored one
BarycenterTargetObjective_value(o, ndebug, beyond) ==
    LET t == get_target(o, ndebug)
        c == get_barycenter(o)
        sq(x) == QMul(x, x)
    IN  IF t.status # "ok" THEN [status |-> t.status]
        ELSE IF Len(t.target) = o.dim
        THEN [status |-> "ok",
              value |-> QSum([d \in 1..o.dim |->
                                sq(QSub(c[d], <<t.target[d], 1>>))], o.dim)]
        ELSE IF beyond = <<>>
        THEN [status |-> "ok", value |-> sq(QSub(c[1], <<t.target[1], 1>>))]
        ELSE [status |-> "ok",
              value |-> QSum([d \in 1..o.dim |->
                                sq(QSub(c[d], <<IF d = 1 THEN t.target[1]
                                                ELSE beyond[d], 1>>))], o.dim)]

\* a call of BarycenterTargetObjective::set_time_step
BarycenterSetTimeStep ==
    /\ obj.kind = "barycenter"
    /\ res.call = "none"
    /\ \E t \in 0..(MaxCols - 1) :
          obj' = BarycenterTargetObjective_set_time_step(obj, t)
    /\ UNCHANGED res

\* a call of BarycenterTargetObjective::value
BarycenterValue ==
    /\ obj.kind = "barycenter"
    /\ res.call = "none"
    /\ \E ndebug \in BOOLEAN, beyond \in BeyondTarget(obj.dim) :
          res' = [call |-> "value"]
                     @@ BarycenterTargetObjective_value(obj, ndebug, beyond)
    /\ UNCHANGED obj

ObjInit ==
    /\ obj \in SumObjects \cup SpatialIntegralObjects \cup VolumeObjects
                \cup VolumePenaltyObjects \cup BoundarySmoothingObjects
                \cup TargetObjects \cup StressObjects \cup ComplianceObjects
                \cup BarycenterObjects
    /\ res = [call |-> "none"]

ObjectiveNext ==
    \/ (SumValue /\ UNCHANGED <<alvars, trvars, meshvars>>)
    \/ (SumPartialGradient /\ UNCHANGED <<alvars, trvars, meshvars>>)
    \/ (SumAdjointRhs /\ UNCHANGED <<alvars, trvars, meshvars>>)
    \/ (VolumePenaltyValue /\ UNCHANGED <<alvars, trvars, meshvars>>)
    \/ (VolumePenaltyPartialGradient /\ UNCHANGED <<alvars, trvars, meshvars>>)
    \/ (VolumePenaltyAdjointRhs /\ UNCHANGED <<alvars, trvars, meshvars>>)
    \/ (StaticAdjointRhs /\ UNCHANGED <<alvars, trvars, meshvars>>)
    \/ (SpatialIntegralPartialGradient /\ UNCHANGED <<alvars, trvars, meshvars>>)
    \/ (VolumeAdjointRhs /\ UNCHANGED <<alvars, trvars, meshvars>>)
    \/ (VolumePartialGradient /\ UNCHANGED <<alvars, trvars, meshvars>>)
    \/ (BoundarySmoothingValue /\ UNCHANGED <<alvars, trvars, meshvars>>)
    \/ (BoundarySmoothingPartialGradient /\ UNCHANGED <<alvars, trvars, meshvars>>)
    \/ (BoundarySmoothingAdjointRhs /\ UNCHANGED <<alvars, trvars, meshvars>>)
    \/ (SetReference /\ UNCHANGED <<alvars, trvars, meshvars>>)
    \/ (StressValue /\ UNCHANGED <<alvars, trvars, meshvars>>)
    \/ (StressDjDgradu /\ UNCHANGED <<alvars, trvars, meshvars>>)
    \/ (ComplianceJ /\ UNCHANGED <<alvars, trvars, meshvars>>)
    \/ (ComplianceDjDgradu /\ UNCHANGED <<alvars, trvars, meshvars>>)
    \/ (ComplianceTopologyGradient /\ UNCHANGED <<alvars, trvars, meshvars>>)
    \/ (CompliancePartialGradient /\ UNCHANGED <<alvars, trvars, meshvars>>)
    \/ (BarycenterSetTimeStep /\ UNCHANGED <<alvars, trvars, meshvars>>)
    \/ (BarycenterValue /\ UNCHANGED <<alvars, trvars, meshvars>>)

ObjectiveInit == AlIdle /\ TrIdle /\ ObjInit /\ MeshIdle

ObjectiveSpec == ObjectiveInit /\ [][ObjectiveNext]_vars

(* ------------------------------ MeshUtils ----------------------------- *)
\* coordinates of a vertex; a row of NV that no vertex was copied to keeps
\* whatever the allocation held
Coords == {0, 1}
Uninitialized == "uninitialized"

\* the meshes reorder_mesh is called on: n >= 1 vertices numbered from 0, V
\* with one row per vertex, C with one color per vertex (the assert of line
\* 403), F with rows of two vertex indices
Meshes ==
    UNION {[V : [0..(n - 1) -> Coords],
            C : [0..(n - 1) -> 0..MaxColor],
            F : SeqsUpTo(SeqsOfLen(0..(n - 1), 2), MaxFaces)] :
                n \in 1..MaxVerts}

\* C.maxCoeff()
maxCoeff(C) == CHOOSE m \in {C[i] : i \in DOMAIN C} :
                   \A i \in DOMAIN C : C[i] <= m

\* the vector count after the loop of lines 407-410 (or 420-424) has run for
\* the vertices 0..i-1
RECURSIVE count(_, _, _)
count(C, num_colors, i) ==
    IF i = 0 THEN [c \in 0..(num_colors - 1) |-> 0]
    ELSE [count(C, num_colors, i - 1) EXCEPT ![C[i - 1]] = @ + 1]

\* R(c) as the loop of lines 413-416 leaves it
RECURSIVE Offset(_, _)
Offset(cnt, c) == IF c = 0 THEN 0 ELSE Offset(cnt, c - 1) + cnt[c - 1]

\* a remapping that fills the rows of a color from the last one backwards
remap_Backwards(C, R, num_colors, i) ==
    R[C[i] + 1] - 1 - count(C, num_colors, i)[C[i]]

\* remap[i] of line 422
remap(C, R, num_colors, i) == R[C[i]] + count(C, num_colors, i)[C[i]]

\* polyfem::reorder_mesh (MeshUtils.cpp:401-439)
reorder_mesh(V, F, C) ==
    LET n == Cardinality(DOMAIN C)
        num_colors == maxCoeff(C) + 1
        cnt == count(C, num_colors, n)
        R == [c \in 0..num_colors |-> Offset(cnt, c)]
        rm == [i \in 0..(n - 1) |-> remap(C, R, num_colors, i)]
        copied(r) == {v \in 0..(n - 1) : rm[v] = r}
        NV == [r \in 0..(n - 1) |->
                  IF copied(r) = {} THEN Uninitialized
                  ELSE V[CHOOSE v \in copied(r) :
                             \A w \in copied(r) : w <= v]]
    IN  [called |-> TRUE, V |-> NV,
         F |-> [f \in DOMAIN F |-> [lv \in DOMAIN F[f] |-> rm[F[f][lv]]]],
         C |-> C, R |-> R, remap |-> rm]

MeshInit ==
    /\ \E m \in Meshes :
          mesh = [called |-> FALSE, V |-> m.V, F |-> m.F, C |-> m.C]
    /\ mesh_in = [called |-> FALSE]

\* a call of reorder_mesh(V, F, C, R)
ReorderMesh ==
    /\ ~mesh.called
    /\ mesh' = reorder_mesh(mesh.V, mesh.F, mesh.C)
    /\ mesh_in' = mesh

MeshNext == ReorderMesh /\ UNCHANGED <<alvars, trvars, objvars>>

MeshSpecInit == AlIdle /\ TrIdle /\ ObjIdle /\ MeshInit

MeshSpec == MeshSpecInit /\ [][MeshNext]_vars

(* --------------------------- specifications --------------------------- *)
Init == AlInit /\ TrIdle /\ ObjIdle /\ MeshIdle

Next ==
    \/ (SolveAlEnter /\ UNCHANGED <<trvars, objvars, meshvars>>)
    \/ (AlGuardEnter /\ UNCHANGED <<trvars, objvars, meshvars>>)
    \/ (AlGuardExit /\ UNCHANGED <<trvars, objvars, meshvars>>)
    \/ (AlBody /\ UNCHANGED <<trvars, objvars, meshvars>>)
    \/ (AlMinimize /\ UNCHANGED <<trvars, objvars, meshvars>>)
    \/ (AlAfterMinimize /\ UNCHANGED <<trvars, objvars, meshvars>>)
    \/ (AlExit /\ UNCHANGED <<trvars, objvars, meshvars>>)
    \/ (SolveReducedEnter /\ UNCHANGED <<trvars, objvars, meshvars>>)
    \/ (SolveReducedReject /\ UNCHANGED <<trvars, objvars, meshvars>>)
    \/ (SolveReducedInit /\ UNCHANGED <<trvars, objvars, meshvars>>)
    \/ (SolveReducedMinimize /\ UNCHANGED <<trvars, objvars, meshvars>>)

Spec == Init /\ [][Next]_vars

TransientInit == AlIdle /\ TrInit /\ ObjIdle /\ MeshIdle

TransientNext == GetTransientQuadratureWeights

TransientSpec == TransientInit /\ [][TransientNext]_vars

(* ------------------------------ claims -------------------------------- *)
\* positions in the trace of the calls with a given name
Calls(name) == {i \in DOMAIN trace : trace[i].call = name}

\* the three tests of the guard, on a full vector and its reduction
Feasible(x) ==
    /\ value_is_finite(full_to_reduced(x))
    /\ is_step_valid(x, full_to_reduced(x))
    /\ is_step_collision_free(x, full_to_reduced(x))

\* solve_al has returned to its caller
AlReturned == op = "solve_al" /\ pc = "idle" /\ status = "returned"

\* C1: in every run of solve_al, al_weight starts at initial_al_weight, never
\* decreases from one step to the next and never exceeds max_al_weight, nor
\* does any weight passed to set_al_weight, update_lagrangian or post_subsolve.
C1_AlWeightCapped ==
    /\ [](op = "solve_al" =>
            /\ al_weight <= max_al_weight
            /\ \A i \in DOMAIN trace : trace[i].w <= max_al_weight
            /\ (al_steps = 0 => al_weight = initial_al_weight))
    /\ [][(op = "solve_al" /\ op' = "solve_al" /\ n_calls' = n_calls)
             => al_weight' >= al_weight]_vars

\* C2: whenever solve_al returns, sol is finite, valid and collision-free on
\* (sol, full_to_reduced(sol)), after zero or more iterations and whatever
\* the minimizer did.
C2_ReturnsFeasible == AlReturned => Feasible(sol)

\* solve_al has returned after at least one iteration whose minimize failed
C2_Witness ==
    /\ AlReturned
    /\ al_steps >= 1
    /\ \E i \in Calls("minimize") : trace[i].threw

\* C3: solve_reduced called with a solution that fails the guard ends with the
\* fatal error, never reaches init, update_barrier_stiffness, minimize or
\* post_subsolve, never returns normally and leaves sol as it was.
C3_RejectsInfeasible ==
    (op = "solve_reduced" /\ ~Feasible(sol_in)) =>
        /\ sol = sol_in
        /\ pc \in {"sr_check", "idle"}
        /\ (pc = "idle" => status = "fatal_error")
        /\ (pc # "idle" => status = "running")
        /\ \A i \in DOMAIN trace :
              trace[i].call \notin {"init", "update_barrier_stiffness",
                                    "minimize", "post_subsolve"}

\* solve_reduced has rejected an infeasible solution
C3_Witness ==
    /\ op = "solve_reduced"
    /\ ~Feasible(sol_in)
    /\ pc = "idle"
    /\ status = "fatal_error"

\* forms and problem are in one of the two consistent configurations
PureConfig(pen, lagr, full) ==
    \/ (pen /\ lagr /\ full)
    \/ (~pen /\ ~lagr /\ ~full)

\* C4: at every call ALSolver makes on the minimizer, a form or the problem,
\* either both forms are enabled and the problem is in full-size mode, or both
\* are disabled and the problem is in reduced-size mode.
C4_NoMixedConfiguration ==
    /\ PureConfig(pen_form.enabled, lagr_form.enabled, nl_problem.full_size)
    /\ \A i \in DOMAIN trace :
          trace[i].call \in {"minimize", "compute_error", "update_lagrangian",
                             "guard", "init"}
             => PureConfig(trace[i].pen, trace[i].lagr, trace[i].full)

\* the loop of solve_al has run: minimize was called in full space with the
\* forms enabled and the error then computed in reduced space without them
C4_Witness ==
    /\ op = "solve_al"
    /\ \E i \in Calls("minimize") :
          trace[i].pen /\ trace[i].lagr /\ trace[i].full
    /\ \E j \in Calls("compute_error") :
          ~trace[j].pen /\ ~trace[j].lagr /\ ~trace[j].full

\* C5: when solve_al returns, stop_criteria().iterations is what it was when
\* solve_al was entered, whatever the minimize calls made of it.
C5_IterationsRestored == AlReturned => nl_solver.iterations = iters

\* solve_al has returned after a minimize that changed the iteration budget
C5_Witness ==
    /\ AlReturned
    /\ \E i \in Calls("minimize") : trace[i].its # iters

\* C6: a runtime_error of minimize inside the loop of solve_al never reaches
\* the caller: the iteration goes on with set_al_weight(-1), compute_error, the
\* escalation or the multiplier update and post_subsolve, and control returns
\* to the loop guard.
C6_FailureSwallowed ==
    (op = "solve_al" /\ \E i \in Calls("minimize") : trace[i].threw) =>
        /\ status \in {"running", "returned"}
        /\ pc \in {"al_after_minimize", "al_guard", "al_body", "al_exit", "idle"}
        /\ (pc # "al_after_minimize" =>
              /\ \E j \in Calls("set_al_weight") : trace[j].w = -1
              /\ Calls("compute_error") # {}
              /\ Calls("post_subsolve") # {}
              /\ (Calls("update_lagrangian") # {}
                    \/ \E j \in Calls("post_subsolve") :
                          \E k \in Calls("set_al_weight") :
                             trace[k].w > 0 /\ trace[j].w = trace[k].w * scaling)
              /\ (pc # "al_guard" => Calls("guard") # {}))

\* the guard has been evaluated again after an iteration whose minimize failed
C6_Witness ==
    /\ op = "solve_al"
    /\ pc = "al_body"
    /\ al_steps >= 1
    /\ \E i \in Calls("minimize") : trace[i].threw

\* an iteration of solve_al is complete and its minimize failed at position i
FailedIteration(i) ==
    /\ op = "solve_al"
    /\ pc \in {"al_guard", "al_body", "al_exit"}
    /\ i \in Calls("minimize")
    /\ trace[i].threw

\* C7 as stated: when minimize fails in the loop of solve_al, the solution
\* used for the rest of the iteration is the one that was current just before
\* the minimize call, even if the minimizer changed its argument.
C7_PreviousIterateKept ==
    \A i \in DOMAIN trace : FailedIteration(i) =>
        /\ \A j \in Calls("compute_error") : trace[j].x = trace[i].x
        /\ \A j \in Calls("update_lagrangian") : trace[j].x = trace[i].x
        /\ sol = trace[i].x

\* C7 amended: when minimize fails in the loop of solve_al, the vector it left
\* in its argument becomes sol: compute_error is evaluated on it, and the guard
\* and update_lagrangian use it unless the error exceeds the initial error, in
\* which case they use the initial solution.
C7_LastIterateKept ==
    \A i \in DOMAIN trace : FailedIteration(i) =>
        LET kept == IF current_error > initial_error
                    THEN initial_sol ELSE trace[i].out
        IN  /\ \A j \in Calls("compute_error") : trace[j].x = trace[i].out
            /\ \A j \in Calls("update_lagrangian") : trace[j].x = kept
            /\ sol = kept

\* minimize failed after changing its argument and the iteration went on
\* with the changed vector
C7_Witness ==
    \E i \in DOMAIN trace :
        /\ FailedIteration(i)
        /\ trace[i].out # trace[i].x
        /\ sol = trace[i].out
        /\ Calls("update_lagrangian") # {}

\* solve_reduced has ended after its minimize call
SrEnded == op = "solve_reduced" /\ pc = "idle" /\ status # "fatal_error"

\* C8: when minimize fails in solve_reduced, sol is the last reduced iterate
\* taken back to full space, the failure reaches the caller and post_subsolve
\* is not called; when it succeeds, sol is the reduced iterate taken back to
\* full space and post_subsolve(0) is called exactly once.
C8_ReducedFailureRaised ==
    SrEnded =>
        \E i \in Calls("minimize") :
            /\ Calls("minimize") = {i}
            /\ sol = <<trace[i].out[1], 0>>
            /\ (trace[i].threw =>
                  /\ status = "runtime_error"
                  /\ Calls("post_subsolve") = {})
            /\ (~trace[i].threw =>
                  /\ status = "returned"
                  /\ Cardinality(Calls("post_subsolve")) = 1
                  /\ \A j \in Calls("post_subsolve") : trace[j].w = 0 /\ j > i)

\* minimize failed in solve_reduced after moving the reduced iterate
C8_Witness ==
    /\ SrEnded
    /\ status = "runtime_error"
    /\ sol # sol_in
    /\ \E i \in Calls("minimize") : trace[i].threw /\ trace[i].out # trace[i].x

\* the minimize call of the iteration just completed left a vector that
\* passes the three tests of the guard
FeasibleIterate == \E i \in Calls("minimize") : Feasible(trace[i].out)

\* C9 as stated: solve_al returns at the end of the first iteration whose
\* minimize call leaves a finite, valid and collision-free iterate: the body
\* is not entered again after such an iteration.
C9_ExitsOnFeasibleIterate ==
    (op = "solve_al" /\ pc = "al_body" /\ al_steps >= 1) => ~FeasibleIterate

\* C9 amended: solve_al returns at the end of the first iteration whose
\* minimize call leaves a finite, valid and collision-free iterate whose
\* penalty error does not exceed the initial error; a feasible iterate with a
\* larger error is replaced by the initial solution and the loop goes on.
C9_ExitsOnKeptFeasibleIterate ==
    /\ (op = "solve_al" /\ pc = "al_body" /\ al_steps >= 1)
          => ~(FeasibleIterate /\ current_error <= initial_error)
    /\ (op = "solve_al" /\ pc = "al_body" /\ al_steps >= 1 /\ FeasibleIterate)
          => sol = initial_sol

\* the loop is left right after an iteration whose minimize left a feasible
\* iterate with no more than the initial error
C9_Witness ==
    /\ op = "solve_al"
    /\ pc = "al_exit"
    /\ al_steps >= 1
    /\ FeasibleIterate
    /\ current_error <= initial_error
    /\ \E i \in Calls("minimize") : sol = trace[i].out

\* the fraction w equals n/d
IsRat(w, n, d) == w[1] * d = w[2] * n

\* w equals dt * n / d
IsDtTimes(w, n, d) == w[1] * dt_[2] * d = w[2] * dt_[1] * n

\* C10: for time_steps >= 1 the weights have length time_steps + 1 and follow
\* the table: uniform is dt except 0 at step 0; trapezoidal is dt inside and
\* dt/2 at both ends; simpson is dt/3 at both ends, 4dt/3 at odd and 2dt/4 at
\* even interior indices; final is 0 except 1 at the last step.  For
\* time_steps = 4 and dt = 1 they are [0,1,1,1,1], [1/2,1,1,1,1/2],
\* [1/3,4/3,2/4,4/3,1/3] and [0,0,0,0,1].
C10_WeightTable ==
    (wstatus # "none" /\ time_steps_ >= 1
        /\ transient_integral_type_ \in
              {Str_uniform, Str_trapezoidal, Str_simpson, Str_final}) =>
      LET n == time_steps_
          W(i) == weights[i + 1]    \* the code's weights[i]
          Is(vals) == \A i \in 0..4 : IsRat(W(i), vals[i + 1][1], vals[i + 1][2])
      IN
        /\ wstatus = "ok"
        /\ Len(weights) = n + 1
        /\ transient_integral_type_ = Str_uniform =>
              \A i \in 0..n : IsDtTimes(W(i), IF i = 0 THEN 0 ELSE 1, 1)
        /\ transient_integral_type_ = Str_trapezoidal =>
              \A i \in 0..n : IsDtTimes(W(i), 1, IF i = 0 \/ i = n THEN 2 ELSE 1)
        /\ transient_integral_type_ = Str_simpson =>
              \A i \in 0..n :
                 IF i = 0 \/ i = n THEN IsDtTimes(W(i), 1, 3)
                 ELSE IF i % 2 = 1 THEN IsDtTimes(W(i), 4, 3)
                 ELSE IsDtTimes(W(i), 2, 4)
        /\ transient_integral_type_ = Str_final =>
              \A i \in 0..n : IsRat(W(i), IF i = n THEN 1 ELSE 0, 1)
        /\ (n = 4 /\ dt_ = <<1, 1>>) =>
              /\ transient_integral_type_ = Str_uniform =>
                    Is(<<<<0, 1>>, <<1, 1>>, <<1, 1>>, <<1, 1>>, <<1, 1>>>>)
              /\ transient_integral_type_ = Str_trapezoidal =>
                    Is(<<<<1, 2>>, <<1, 1>>, <<1, 1>>, <<1, 1>>, <<1, 2>>>>)
              /\ transient_integral_type_ = Str_simpson =>
                    Is(<<<<1, 3>>, <<4, 3>>, <<2, 4>>, <<4, 3>>, <<1, 3>>>>)
              /\ transient_integral_type_ = Str_final =>
                    Is(<<<<0, 1>>, <<0, 1>>, <<0, 1>>, <<0, 1>>, <<1, 1>>>>)

\* the simpson weights have been computed for time_steps = 4 and dt = 1
C10_Witness ==
    /\ wstatus = "ok"
    /\ transient_integral_type_ = Str_simpson
    /\ time_steps_ = 4
    /\ dt_ = <<1, 1>>
    /\ Len(weights) = 5

\* the rule names of the table other than step_k
NamedRules == {Str_uniform, Str_trapezoidal, Str_simpson, Str_final}

\* the rule name is step_k for a single decimal digit k
IsStepName(type, k) == type = Str_step_ \o <<Digits[k + 1]>>

\* C11: for the rule step_k with 0 < k < time_steps + 1 the weights have length
\* time_steps + 1 and are 0 except 1 at index k; a step_k with k outside that
\* range, or a name that is no rule of the table, is rejected and produces no
\* weight vector.
C11_StepRule ==
    (wstatus # "none" /\ transient_integral_type_ \notin NamedRules) =>
        IF \E k \in 1..time_steps_ : IsStepName(transient_integral_type_, k)
        THEN /\ wstatus = "ok"
             /\ Len(weights) = time_steps_ + 1
             /\ \A i \in 0..time_steps_ :
                   weights[i + 1] =
                      IF IsStepName(transient_integral_type_, i)
                      THEN <<1, 1>> ELSE <<0, 1>>
        ELSE wstatus # "ok"

\* the weight at the start of the iteration just completed
IterationWeight ==
    (CHOOSE i \in Calls("set_al_weight") : trace[i].w > 0) 

\* C20: each loop iteration of solve_al does exactly one of two things after
\* the sub-solve: if eta < eta_tol and al_weight < max_al_weight, al_weight is
\* multiplied by scaling and update_lagrangian is not called; otherwise
\* update_lagrangian(sol, al_weight) is called exactly once with the unscaled
\* weight and al_weight is left unchanged.
C20_EscalateOrDualAscent ==
    (op = "solve_al" /\ pc = "al_guard" /\ al_steps >= 1) =>
        LET w0 == trace[IterationWeight].w
        IN  IF EtaBelowTol(current_error, initial_error, eta_tol)
                  /\ w0 < max_al_weight
            THEN /\ al_weight = w0 * scaling
                 /\ Calls("update_lagrangian") = {}
            ELSE /\ al_weight = w0
                 /\ Cardinality(Calls("update_lagrangian")) = 1
                 /\ \A j \in Calls("update_lagrangian") :
                       trace[j].w = w0 /\ trace[j].x = sol

\* an iteration ended with the weight at its maximum and the error not
\* reduced: the multiplier was updated instead of the weight
C20_Witness ==
    /\ op = "solve_al"
    /\ pc = "al_guard"
    /\ al_steps >= 1
    /\ EtaBelowTol(current_error, initial_error, eta_tol)
    /\ al_weight >= max_al_weight
    /\ Calls("update_lagrangian") # {}

\* C12: for every list of sub-objectives, the empty one included,
\* SumObjective::value is the sum of their values, compute_partial_gradient the
\* elementwise sum of their gradients, and compute_adjoint_rhs the elementwise
\* sum of their right-hand sides, of the summands' shape: ndof rows and one
\* column per time step.
C12_SumIsAdditive ==
    (obj.kind = "sum" /\ res.call # "none") =>
        LET n == Len(obj.objs)
            values == [k \in 1..n |-> obj.objs[k].value]
        IN  /\ res.status = "ok"
            /\ res.call = "value" => res.value = SumOver(values, n)
            /\ res.call = "compute_partial_gradient" =>
                  /\ Len(res.grad) = obj.full_dim
                  /\ \A i \in 1..obj.full_dim :
                        res.grad[i] =
                            SumOver([k \in 1..n |-> obj.objs[k].grad[i]], n)
            /\ (res.call = "compute_adjoint_rhs" /\ n > 0) =>
                  /\ Len(res.rhs) = obj.cols
                  /\ \A c \in 1..obj.cols :
                        /\ Len(res.rhs[c]) = obj.ndof
                        /\ \A i \in 1..obj.ndof :
                              res.rhs[c][i] =
                                  SumOver([k \in 1..n |-> obj.objs[k].rhs[c][i]], n)

\* C13: with bound [lo, hi] and vol the wrapped volume, the value is 0 for
\* lo <= vol <= hi, (vol - lo)^2 below and (vol - hi)^2 above; the gradient is
\* 2 (vol - lo) dVol below, 2 (vol - hi) dVol above and the zero vector inside,
\* so value and gradient vanish at vol = lo and at vol = hi.
C13_SoftBound ==
    (obj.kind = "volume_penalty" /\ obj.lo <= obj.hi /\ res.call # "none") =>
        LET excess == IF obj.vol < obj.lo THEN obj.vol - obj.lo
                      ELSE IF obj.vol > obj.hi THEN obj.vol - obj.hi
                      ELSE 0
        IN  /\ res.status = "ok"
            /\ res.call = "value" => res.value = excess * excess
            /\ res.call = "compute_partial_gradient" =>
                  LET dVol == VolumeObjective_compute_partial_gradient(
                                  res.param, obj.shape_term)
                  IN  /\ Len(res.grad) = Len(dVol)
                      /\ \A i \in DOMAIN dVol :
                            res.grad[i] = 2 * excess * dVol[i]
            /\ (obj.vol = obj.lo \/ obj.vol = obj.hi) =>
                  /\ res.call = "value" => res.value = 0
                  /\ res.call = "compute_partial_gradient" =>
                        \A i \in DOMAIN res.grad : res.grad[i] = 0

\* the penalty has been evaluated for a volume above a bound that is not
\* degenerate
C13_Witness ==
    /\ obj.kind = "volume_penalty"
    /\ obj.lo < obj.hi
    /\ obj.vol > obj.hi
    /\ res.call = "value"
    /\ res.value > 0

\* C14: compute_adjoint_rhs(state) has one column per time step of the state
\* and ndof rows, is zero for a state the objective does not own and in every
\* column other than column time_step_; VolumeObjective,
\* VolumePaneltyObjective and BoundarySmoothingObjective return all zeros.
C14_AdjointRhsZeroColumns ==
    (/\ obj.kind \in {"spatial_integral", "volume", "volume_penalty",
                      "boundary_smoothing"}
     /\ res.call = "compute_adjoint_rhs"
     /\ obj.kind = "spatial_integral" => obj.time_step < res.state.cols) =>
        /\ res.status = "ok"
        /\ Len(res.rhs) = res.state.cols
        /\ \A c \in 1..Len(res.rhs) :
              /\ Len(res.rhs[c]) = res.state.ndof
              /\ (\/ obj.kind # "spatial_integral"
                  \/ ~res.state.own
                  \/ c # obj.time_step + 1) => res.rhs[c] = Zeros(res.state.ndof)

\* C15: compute_partial_gradient(param) has param.full_dim() entries and is
\* all zeros for a parameter other than the objective's own shape parameter.
C15_PartialGradientOfForeignParam ==
    (/\ obj.kind \in {"spatial_integral", "volume", "volume_penalty",
                      "boundary_smoothing"}
     /\ res.call = "compute_partial_gradient") =>
        /\ res.status = "ok"
        /\ Len(res.grad) = res.param.full_dim
        /\ ~res.param.own =>
              \A i \in 1..Len(res.grad) : res.grad[i] \in {0, <<0, 1>>}

\* C16: when for some selected body id the optimized mesh and the reference
\* mesh select different numbers of elements, set_reference fails fatally: it
\* does not return normally and leaves the element correspondence map as it
\* was.
C16_MismatchIsFatal ==
    (/\ obj.kind = "target"
     /\ res.call = "set_reference"
     /\ \E b \in 1..MaxBodyId :
           /\ res.ids = {} \/ b \in res.ids
           /\ Len(InterestedElements(obj.body, res.ids, b))
                  # Len(InterestedElements(res.ref_body, res.ids, b))) =>
        /\ res.status = "fatal"
        /\ obj.e_to_ref_e = res.before

\* an evaluation that needs a stress law the objective does not support
UnsupportedEvaluation ==
    \/ /\ obj.kind = "stress"
       /\ res.call \in {"value", "dj_dgradu"}
       /\ obj.formulation \notin {"Laplacian", "LinearElasticity", "NeoHookean"}
    \/ /\ obj.kind = "compliance"
       /\ res.call \in {"j", "dj_dgradu", "compute_partial_gradient_topology"}
       /\ obj.formulation # "LinearElasticity"

\* C17: every evaluation that needs a stress law outside the supported set
\* (StressObjective's j and dj_dgradu outside Laplacian, LinearElasticity,
\* NeoHookean; ComplianceObjective's j, dj_dgradu and topology gradient
\* outside LinearElasticity) fails with the fatal "Unknown formulation!"
\* error and yields no numeric result.
C17_UnknownFormulationIsFatal ==
    UnsupportedEvaluation =>
        /\ res.status = "fatal"
        /\ res.message = "Unknown formulation!"

\* a zero gradient at every quadrature point
ZeroGradient ==
    \A q \in 1..Len(obj.grad_u) : \A c \in 1..Len(obj.grad_u[q]) :
        obj.grad_u[q][c] = 0

\* the stress, the pointwise values and the objective value are all zero
ZeroStressAndValue ==
    /\ res.status = "ok"
    /\ \A q \in 1..Len(obj.grad_u) :
          /\ res.stress[q].t = "mat"
          /\ \A i \in 1..Len(res.stress[q].m) :
                \A l \in 1..Len(res.stress[q].m[i]) : res.stress[q].m[i][l] = 0
          /\ res.val[q] = Num(0)
    /\ res.value = Num(0)

\* C19 as stated: for LinearElasticity and a zero gradient at every
\* quadrature point, the stress is the zero matrix and the pointwise value and
\* the objective value are zero for every power and all lambda, mu.
C19_ZeroGradientZeroValue ==
    (/\ obj.kind = "stress"
     /\ obj.formulation = "LinearElasticity"
     /\ res.call = "value"
     /\ ZeroGradient) => ZeroStressAndValue

\* C19 amended: the same for every power > 0; the stress is zero for every
\* power.
C19_ZeroGradientZeroValuePositivePower ==
    (/\ obj.kind = "stress"
     /\ obj.formulation = "LinearElasticity"
     /\ res.call = "value"
     /\ ZeroGradient) =>
        IF obj.in_power > 0 THEN ZeroStressAndValue
        ELSE /\ res.status = "ok"
             /\ \A q \in 1..Len(obj.grad_u) :
                   res.stress[q].m = ZeroMatrix(res.stress[q].m)

\* the value of a linear-elastic StressObjective with lambda, mu > 0 and
\* power 2 has been computed for a zero gradient at two quadrature points
C19_Witness ==
    /\ obj.kind = "stress"
    /\ obj.formulation = "LinearElasticity"
    /\ res.call = "value"
    /\ ZeroGradient
    /\ Len(obj.grad_u) = 2
    /\ obj.lambda > 0
    /\ obj.mu > 0
    /\ obj.in_power = 2
    /\ res.value = Num(0)

\* C18: BarycenterTargetObjective::value() is the squared distance between
\* the centroid, centroid_d = PositionObjective_d.value() / volume with every
\* PositionObjective_d evaluated at the parent's time step, and the target:
\* row time_step of the target matrix when it has more than one row, its
\* single row otherwise.
C18_BarycenterValue ==
    (obj.kind = "barycenter" /\ res.call = "value") =>
        LET T == IF Len(obj.target) > 1 THEN obj.target[obj.time_step + 1]
                 ELSE obj.target[1]
            centroid(d) == Q(obj.position[d][obj.time_step + 1], obj.volume)
            diff(d) == QSub(centroid(d), <<T[d], 1>>)
        IN  /\ res.status = "ok"
            /\ res.value = QSum([d \in 1..obj.dim |-> QMul(diff(d), diff(d))],
                                obj.dim)

\* C21: in an iteration of solve_al whose error after the sub-solve exceeds
\* the initial error, sol is reset to the solution solve_al was called with
\* (not to the iterate of the previous iteration) before the guard is
\* evaluated again and before update_lagrangian is called; otherwise sol
\* remains the iterate the sub-solve left.
C21_RevertsToInitial ==
    (op = "solve_al" /\ pc \in {"al_guard", "al_body", "al_exit"}
        /\ al_steps >= 1 /\ Calls("minimize") # {}) =>
        \A i \in Calls("minimize") :
            LET kept == IF current_error > initial_error
                        THEN sol_in ELSE trace[i].out
            IN  /\ sol = kept
                /\ \A j \in Calls("update_lagrangian") :
                      j > i /\ trace[j].x = kept
                /\ \A j \in Calls("guard") : j > i /\ trace[j].x = kept

\* the second iteration started from an iterate other than the initial
\* solution, its error grew, and update_lagrangian received the initial
\* solution
C21_Witness ==
    /\ op = "solve_al"
    /\ pc = "al_guard"
    /\ al_steps = 2
    /\ current_error > initial_error
    /\ sol = sol_in
    /\ \E i \in Calls("minimize") :
          /\ trace[i].x # sol_in
          /\ trace[i].out # sol_in
    /\ \E j \in Calls("update_lagrangian") : trace[j].x = sol_in

\* the configuration solve_al runs the sub-solve in: both forms enabled, the
\* full-size problem, Dirichlet conditions not hard-applied
FullSpace(c) == c.pen /\ c.lagr /\ c.full /\ ~c.dbc

\* the configuration solve_al measures the error and evaluates the guard in
ReducedSpace(c) == ~c.pen /\ ~c.lagr /\ ~c.full /\ c.dbc

\* C22 as stated: at every minimize of the loop of solve_al both forms are
\* enabled with the weight of BOTH forms equal to the current al_weight, on
\* the full-size problem without hard Dirichlet conditions; at every
\* compute_error and guard evaluation that follows in the iteration both
\* forms are disabled and the problem is reduced with Dirichlet conditions
C22_BothWeightsSet ==
    (op = "solve_al" /\ Calls("minimize") # {}) =>
        \A i \in Calls("minimize") :
            /\ FullSpace(trace[i])
            /\ trace[i].penw = trace[IterationWeight].w
            /\ trace[i].lagrw = trace[IterationWeight].w
            /\ pc = "al_after_minimize" => trace[i].penw = al_weight
            /\ \A j \in Calls("compute_error") \cup Calls("guard") :
                  j > i => ReducedSpace(trace[j])

\* C22 as the code has it: set_al_weight gives al_weight to the penalty form
\* only, the weight of the Lagrangian form is the one it had before solve_al
C22_PenaltyWeightSet ==
    (op = "solve_al" /\ Calls("minimize") # {}) =>
        \A i \in Calls("minimize") :
            /\ FullSpace(trace[i])
            /\ trace[i].penw = trace[IterationWeight].w
            /\ trace[i].lagrw = trace[1].lagrw
            /\ pc = "al_after_minimize" => trace[i].penw = al_weight
            /\ \A j \in Calls("compute_error") \cup Calls("guard") :
                  j > i => ReducedSpace(trace[j])

\* an iteration of a solver that started reduced, with an escalated weight,
\* has measured its error and evaluated the guard again
C22_Witness ==
    /\ op = "solve_al"
    /\ pc = "al_body"
    /\ al_steps = 1
    /\ \E i \in Calls("minimize") :
          /\ trace[i].penw = initial_al_weight
          /\ trace[i].lagrw # initial_al_weight
          /\ \E j \in Calls("compute_error") : j > i
          /\ \E j \in Calls("guard") : j > i

\* C23: on its success path solve_reduced switches to reduced space (both
\* forms disabled, reduced-size problem, Dirichlet degrees of freedom removed)
\* before it re-initializes the problem and calls minimize, whatever
\* configuration it was called in, also after a solve_al that ran no iteration
C23_FinalSolveReduced ==
    (op = "solve_reduced" /\ Calls("minimize") # {}) =>
        \A i \in Calls("init") \cup Calls("minimize") : ReducedSpace(trace[i])

\* the names of the calls of the trace that are among the given ones, in
\* the order they were made
CallOrder(names) ==
    LET kept == SelectSeq(trace, LAMBDA c : c.call \in names)
    IN  [i \in DOMAIN kept |-> kept[i].call]

\* the calls an iteration of the loop is said to make
IterationCalls ==
    {"set_al_weight", "init", "update_barrier_stiffness", "minimize",
     "compute_error", "update_lagrangian", "post_subsolve"}

\* C24: a loop iteration of solve_al calls, in this order and once each,
\* set_al_weight(al_weight), init(sol), update_barrier_stiffness(sol) with the
\* current solution, minimize, set_al_weight(-1), compute_error, then either
\* escalates or calls update_lagrangian, then post_subsolve with the weight as
\* that step left it; post_subsolve and update_barrier_stiffness are each
\* called once per iteration
C24_IterationOrder ==
    (op = "solve_al" /\ pc = "al_guard" /\ al_steps >= 1) =>
        LET order == CallOrder(IterationCalls)
            n == Len(order)
            w0 == trace[IterationWeight].w
        IN  /\ n \in {7, 8}
            /\ SubSeq(order, 1, 6) =
                  <<"set_al_weight", "init", "update_barrier_stiffness",
                    "minimize", "set_al_weight", "compute_error">>
            /\ n = 8 => order[7] = "update_lagrangian" /\ al_weight = w0
            /\ n = 7 => al_weight = w0 * scaling
            /\ order[n] = "post_subsolve"
            /\ \A i \in Calls("post_subsolve") : trace[i].w = al_weight
            /\ \A i \in Calls("set_al_weight") :
                  trace[i].w = IF i = IterationWeight THEN w0 ELSE -1
            /\ \A i \in Calls("init") \cup Calls("update_barrier_stiffness") :
                  \A j \in Calls("minimize") :
                      trace[i].x = trace[j].x

\* a second iteration has run through with an escalated weight, the first
\* having ended in a dual-ascent step or an escalation
C24_Witness ==
    /\ op = "solve_al"
    /\ pc = "al_guard"
    /\ al_steps = 2
    /\ Calls("update_lagrangian") = {}
    /\ \E i \in Calls("post_subsolve") : trace[i].w > initial_al_weight
    /\ \E i \in Calls("minimize") : trace[i].threw

\* switches and weights of the forms and mode of the problem, as ALSolver
\* can change them
Configuration(pen, lagr, prob) ==
    <<pen.enabled, pen.weight, lagr.enabled, lagr.weight, prob.full_size,
      prob.apply_DBC>>

\* the configuration a call of the trace was made in
ConfigurationAt(c) == <<c.pen, c.penw, c.lagr, c.lagrw, c.full, c.dbc>>

\* C25: when the solution passed to solve_al is finite, valid and
\* collision-free, solve_al runs no iteration: sol is unchanged, no form is
\* enabled, disabled or weighted, mode and DBC flag of the problem are
\* unchanged, and init, update_barrier_stiffness, minimize, update_lagrangian
\* and post_subsolve are not called
C25_NoIterationWhenFeasible ==
    (op = "solve_al" /\ Feasible(sol_in)) =>
        /\ al_steps = 0
        /\ pc \in {"al_guard", "al_exit", "idle"}
        /\ sol = sol_in
        /\ Configuration(pen_form, lagr_form, nl_problem)
              = ConfigurationAt(trace[1])
        /\ \A i \in DOMAIN trace :
              /\ trace[i].call \in {"compute_error", "line_search_begin",
                                    "guard", "line_search_end"}
              /\ ConfigurationAt(trace[i]) = ConfigurationAt(trace[1])

\* solve_al has returned from a feasible solution, called with the forms
\* enabled on the full-size problem
C25_Witness ==
    /\ AlReturned
    /\ Feasible(sol_in)
    /\ al_steps = 0
    /\ pen_form.enabled /\ nl_problem.full_size
    /\ Calls("guard") # {}

\* C26: every line_search_begin ALSolver calls is followed by exactly one
\* line_search_end before the operation returns or throws, and the pairs
\* never nest; in solve_al over any number of iterations, in solve_reduced
\* when its check fails, when minimize fails and when it succeeds
C26_LineSearchBalanced ==
    /\ nl_problem.ls_open \in {0, 1}
    /\ pc = "idle" => nl_problem.ls_open = 0

\* the least N with initial_al_weight * scaling^N >= max_al_weight
EscalationLimit ==
    CHOOSE n \in 0..max_al_weight :
        /\ initial_al_weight * IntPow(scaling, n) >= max_al_weight
        /\ \A k \in 0..(n - 1) :
              initial_al_weight * IntPow(scaling, k) < max_al_weight

\* C27: with scaling > 1 and 0 < initial_al_weight < max_al_weight, solve_al
\* multiplies al_weight by scaling at most N times, N the least integer with
\* initial_al_weight * scaling^N >= max_al_weight; al_weight stays below
\* max_al_weight * scaling; an iteration that starts with al_weight >=
\* max_al_weight leaves it as it is and calls update_lagrangian
C27_EscalationBounded ==
    (op = "solve_al" /\ scaling > 1 /\ 0 < initial_al_weight
        /\ initial_al_weight < max_al_weight) =>
        /\ \E k \in 0..EscalationLimit :
              al_weight = initial_al_weight * IntPow(scaling, k)
        /\ al_weight < max_al_weight * scaling
        /\ (pc = "al_guard" /\ al_steps >= 1
              /\ trace[IterationWeight].w >= max_al_weight) =>
              /\ al_weight = trace[IterationWeight].w
              /\ Calls("update_lagrangian") # {}

\* after N = 1 escalation the weight has passed max_al_weight, and the next
\* iteration, whose eta was below eta_tol again, made a dual-ascent step
C27_Witness ==
    /\ op = "solve_al"
    /\ pc = "al_guard"
    /\ al_steps = 2
    /\ initial_al_weight < max_al_weight
    /\ EscalationLimit = 1
    /\ al_weight = initial_al_weight * scaling
    /\ al_weight > max_al_weight
    /\ EtaBelowTol(current_error, initial_error, eta_tol)
    /\ Calls("update_lagrangian") # {}

\* C28: ComplianceObjective::compute_partial_gradient(param) terminates and
\* returns a vector of length param.full_dim() for each kind of parameter: the
\* shape-derivative term of SpatialIntegralObjective::compute_partial_gradient
\* for the shape parameter, the per-element SIMP sum for the topology
\* parameter, the 'Not implemented' error for the elastic parameter, the zero
\* vector for any other parameter
C28_ComplianceGradientReturns ==
    (/\ obj.kind = "compliance"
     /\ res.call = "compute_partial_gradient"
     /\ obj.formulation = "LinearElasticity") =>
        IF res.param.kind = "elastic"
        THEN res.status = "fatal" /\ res.message = "Not implemented!"
        ELSE /\ res.status = "ok"
             /\ Len(res.term) = res.param.full_dim
             /\ res.param.kind = "other" => res.term = Zeros(res.param.full_dim)
             /\ res.param.kind = "topology" =>
                   res.term[1] = ComplianceObjective_topology_gradient(
                                     obj, FALSE, "empty").term

\* C29: after any sequence of set_reference calls, the keys of e_to_ref_e_
\* are exactly the elements the most recent call selected, the i-th selected
\* element of body b is mapped to the i-th selected element of body b of the
\* reference, no entry of an earlier call is left, and every value is the
\* index of an element of the reference
C29_MapMatchesLastCall ==
    (obj.kind = "target" /\ res.call = "set_reference" /\ res.status = "ok") =>
        /\ DOMAIN obj.e_to_ref_e = MappedElements(obj.body, res.ids)
        /\ \A e \in DOMAIN obj.e_to_ref_e :
              LET b == obj.body[e + 1]
                  ref == InterestedElements(res.ref_body, res.ids, b)
                  i == PositionInBody(obj.body, res.ids, e) + 1
              IN  /\ obj.e_to_ref_e[e] \in 0..(Len(res.ref_body) - 1)
                  /\ i <= Len(ref)
                  /\ obj.e_to_ref_e[e] = ref[i]

\* the vertices of a color
OfColor(c) == {v \in DOMAIN mesh.C : mesh.C[v] = c}

\* C30: reorder_mesh(V, F, C, R), for colors in 0..num_colors-1, leaves R of
\* length num_colors+1 with R(0) = 0 and R(c+1) - R(c) the number of vertices
\* of color c; the remapping of the vertices is a bijection on 0..n-1 that
\* puts the vertices of color c in the rows R(c)..R(c+1)-1 in their original
\* relative order; and every entry of F is rewritten so that each face refers
\* to the same vertex coordinates as before the call
C30_ReorderMesh ==
    mesh.called =>
        LET n == Cardinality(DOMAIN mesh.C)
            num_colors == maxCoeff(mesh.C) + 1
            R == mesh.R
            pi == mesh.remap
        IN  /\ DOMAIN R = 0..num_colors
            /\ R[0] = 0
            /\ \A c \in 0..(num_colors - 1) :
                  R[c + 1] - R[c] = Cardinality(OfColor(c))
            /\ {pi[v] : v \in 0..(n - 1)} = 0..(n - 1)
            /\ \A v \in 0..(n - 1) :
                  /\ R[mesh.C[v]] <= pi[v]
                  /\ pi[v] < R[mesh.C[v] + 1]
                  /\ mesh.V[pi[v]] = mesh_in.V[v]
                  /\ \A w \in 0..(n - 1) :
                        (v < w /\ mesh.C[v] = mesh.C[w]) => pi[v] < pi[w]
            /\ DOMAIN mesh.F = DOMAIN mesh_in.F
            /\ \A f \in DOMAIN mesh.F : \A lv \in DOMAIN mesh.F[f] :
                  mesh.V[mesh.F[f][lv]] = mesh_in.V[mesh_in.F[f][lv]]

\* a mesh with an unused color between two used ones, two vertices of one
\* color, a vertex that moved and a face that was rewritten
C30_Witness ==
    /\ mesh.called
    /\ OfColor(1) = {}
    /\ Cardinality(OfColor(2)) = 2
    /\ OfColor(0) # {}
    /\ \E v \in DOMAIN mesh.C : mesh.remap[v] # v
    /\ mesh.F # <<>>
    /\ mesh.F # mesh_in.F
    /\ mesh.V # mesh_in.V

====
